---- MODULE Spec2Model ----
(***************************************************************************)
(* A model of block-utils (src/src/lib.rs): the host/LUN associator, the   *)
(* udev classifier, the topology resolver, the /proc/scsi/scsi parser,    *)
(* the /sys/bus/scsi/devices scan, the mtab lookups, the enumerations of   *)
(* the udev database and set_elevator over /etc/rc.local.                  *)
(*                                                                         *)
(* Text is modelled as a sequence of one-character strings, so that        *)
(* substring tests, tokenising, case folding and number parsing are        *)
(* computed as the code computes them.                                     *)
(***************************************************************************)
EXTENDS Integers, Sequences, FiniteSets, TLC

VARIABLES
    info,       \* the &[ScsiInfo] slice handed to sort_scsi_info
    device,     \* the udev::Device handle handed to the classifier
    db,         \* the udev database, in scan_devices() order
    procScsi,   \* the text of /proc/scsi/scsi
    sysScsi,    \* the directory tree under /sys/bus/scsi/devices
    mtab,       \* the lines of /etc/mtab
    present,    \* which of the two SCSI inventories exist in the file system
    rcLocal,    \* the boot script /etc/rc.local
    log,        \* the calls completed so far, each with what it returned
    call,       \* the last library call and its arguments
    ret         \* what that call returned (or that it panicked)

vars == <<info, device, db, procScsi, sysScsi, mtab, present, rcLocal, log, call, ret>>

(***************************************************************************)
(* Option and Result values                                                *)
(***************************************************************************)
None == [some |-> FALSE]
Some(v) == [some |-> TRUE, val |-> v]

Ok(v) == [kind |-> "Ok", val |-> v]
Err(e) == [kind |-> "Err", err |-> e]
Panic(why) == [kind |-> "Panic", why |-> why]

NoCall == [op |-> "none"]
NoRet == [kind |-> "none"]

\* a file that does not exist; one that does is Some(text)
NoFile == None

\* the paths of the two SCSI inventories
SysScsiPath == "/sys/bus/scsi/devices"
ProcScsiPath == "/proc/scsi/scsi"
Inventories == {SysScsiPath, ProcScsiPath}

(***************************************************************************)
(* Sequence helpers                                                        *)
(***************************************************************************)
Range(s) == {s[i] : i \in 1..Len(s)}

SeqsUpTo(S, n) == UNION {[1..k -> S] : k \in 0..n}

\* the least element of a non-empty set of integers
Min(S) == CHOOSE m \in S : \A x \in S : m <= x

(***************************************************************************)
(* Text: a sequence of one-character strings                               *)
(***************************************************************************)
Digits == <<"0", "1", "2", "3", "4", "5", "6", "7", "8", "9">>
UpperCase == <<"A", "B", "C", "D", "E", "F", "G", "H", "I", "J", "K", "L", "M",
               "N", "O", "P", "Q", "R", "S", "T", "U", "V", "W", "X", "Y", "Z">>
LowerCase == <<"a", "b", "c", "d", "e", "f", "g", "h", "i", "j", "k", "l", "m",
               "n", "o", "p", "q", "r", "s", "t", "u", "v", "w", "x", "y", "z">>

\* char::is_digit(10) / nom::character::is_digit
IsDigit(c) == c \in Range(Digits)
\* the ASCII letters (nom's alpha1 takes [A-Za-z])
IsAlpha(c) == c \in Range(UpperCase) \cup Range(LowerCase)
\* char::is_whitespace on the ASCII blanks; nom's multispace takes the same four
IsSpace(c) == c \in {" ", "\t", "\n", "\r"}

DigitVal(c) == (CHOOSE i \in 1..10 : Digits[i] = c) - 1

\* str::to_lowercase, one character
LowerChar(c) ==
    IF c \in Range(UpperCase)
    THEN LowerCase[CHOOSE i \in 1..26 : UpperCase[i] = c]
    ELSE c

\* str::to_lowercase
ToLower(s) == [i \in 1..Len(s) |-> LowerChar(s[i])]

\* does needle start at offset i (1-based) of hay
StartsAt(hay, needle, i) ==
    /\ i + Len(needle) - 1 <= Len(hay)
    /\ \A k \in 1..Len(needle) : hay[i + k - 1] = needle[k]

\* str::contains(&str)
Contains(hay, needle) == \E i \in 1..(Len(hay) + 1) : StartsAt(hay, needle, i)

\* Regex::new(r"<word>\d+").is_match(hay): an unanchored search for the
\* word followed by at least one digit
MatchesWordDigits(hay, word) ==
    \E i \in 1..Len(hay) :
        /\ StartsAt(hay, word, i)
        /\ i + Len(word) <= Len(hay)
        /\ IsDigit(hay[i + Len(word)])

(***************************************************************************)
(* ScsiInfo and sort_scsi_info                                             *)
(***************************************************************************)

\* struct ScsiInfo; the coordinates are u8
ScsiInfo(h, c, i, l, v) ==
    [block_device |-> None, enclosure |-> None,
     host |-> h, channel |-> c, id |-> i, lun |-> l,
     vendor |-> v, model |-> None, rev |-> None, state |-> None,
     scsi_type |-> "NoDevice", scsi_revision |-> 0]

\* a plausible slip: the equality a derive(PartialEq) would give
ScsiEqDerived(a, b) == a = b

\* impl PartialEq for ScsiInfo
ScsiEq(a, b) ==
    /\ a.host = b.host
    /\ a.channel = b.channel
    /\ a.id = b.id
    /\ a.lun = b.lun

\* a plausible slip: the host adapter is any record of the same host and
\* channel 0
HostPositionsByChannel(inf, dev) ==
    {p \in 1..Len(inf) : /\ inf[p].host = dev.host
                         /\ inf[p].channel = 0}

\* info.iter().position(|d| d.host == dev.host && d.channel == 0 && ...)
HostPositions(inf, dev) ==
    {p \in 1..Len(inf) : /\ inf[p].host = dev.host
                         /\ inf[p].channel = 0
                         /\ inf[p].id = 0
                         /\ inf[p].lun = 0}

\* a plausible slip: the host adapter is looked up by host number alone
AssociateNoSelfCheck(inf, dev) ==
    LET hs == HostPositions(inf, dev) IN
    IF hs = {} THEN <<dev, None>> ELSE <<dev, Some(inf[Min(hs)])>>

\* the closure of sort_scsi_info_iter, applied to one record of the slice
Associate(inf, dev) ==
    LET hs == HostPositions(inf, dev) IN
    IF hs = {}
    THEN <<dev, None>>
    ELSE LET host_dev == inf[Min(hs)] IN
         IF ScsiEq(host_dev, dev)
         THEN <<dev, None>>
         ELSE <<dev, Some(inf[Min(hs)])>>

\* a plausible slip: a record equal to an earlier one of the slice is left out
sort_scsi_info_dedup(inf) ==
    LET kept == SelectSeq([i \in 1..Len(inf) |-> i],
                          LAMBDA i : \A j \in 1..(i - 1) : ~ScsiEq(inf[j], inf[i]))
    IN  [k \in 1..Len(kept) |-> Associate(inf, inf[kept[k]])]

\* sort_scsi_info: sort_scsi_info_iter(info).collect()
sort_scsi_info(inf) == [i \in 1..Len(inf) |-> Associate(inf, inf[i])]

\* the coordinates and vendors the slices are drawn from
Coords == {<<0, 0, 0, 0>>, <<2, 0, 0, 0>>, <<2, 1, 0, 0>>, <<2, 1, 0, 1>>, <<0, 0, 1, 0>>}
SortVendors == {"None", "Lsi"}
MaxInfo == 4

ScsiRecords == {ScsiInfo(c[1], c[2], c[3], c[4], v) : c \in Coords, v \in SortVendors}

CoordOf(r) == <<r.host, r.channel, r.id, r.lun>>

InitSort ==
    /\ info \in SeqsUpTo(ScsiRecords, MaxInfo)
    /\ device = NoCall
    /\ db = <<>>
    /\ procScsi = <<>>
    /\ mtab = <<>>
    /\ sysScsi = <<>>
    /\ present = Inventories
    /\ rcLocal = NoFile
    /\ log = <<>>
    /\ call = NoCall
    /\ ret = NoRet

SortScsiInfo ==
    /\ call = NoCall
    /\ call' = [op |-> "sort_scsi_info"]
    /\ ret' = sort_scsi_info(info)
    /\ UNCHANGED <<info, device, db, procScsi, sysScsi, mtab, present, rcLocal, log>>

NextSort == SortScsiInfo

SpecSort == InitSort /\ [][NextSort]_vars

\* the slice of test_sort_raid_info
ExampleCoords == <<(<<0, 0, 0, 0>>), (<<2, 0, 0, 0>>), (<<2, 1, 0, 0>>), (<<2, 1, 0, 1>>)>>

IsExample == /\ Len(info) = 4
             /\ \A i \in 1..4 : CoordOf(info[i]) = ExampleCoords[i]

\* C1: sort_scsi_info pairs each record d with None when the slice holds no
\* record at (d.host,0,0,0) or when d is itself at (d.host,0,0,0), and
\* otherwise with a copy of a record of the slice at (d.host,0,0,0); on the
\* slice (0,0,0,0), (2,0,0,0), (2,1,0,0), (2,1,0,1) the last two records get
\* Some (2,0,0,0) and the first two get None.
C1_Association ==
    call.op = "sort_scsi_info" =>
        /\ Len(ret) = Len(info)
        /\ \A i \in 1..Len(info) :
             LET d == info[i]
                 r == ret[i][2]
                 adapters == {h \in Range(info) : CoordOf(h) = <<d.host, 0, 0, 0>>}
             IN  /\ adapters = {} => r = None
                 /\ CoordOf(d) = <<d.host, 0, 0, 0>> => r = None
                 /\ (adapters # {} /\ CoordOf(d) # <<d.host, 0, 0, 0>>)
                       => r.some /\ r.val \in adapters
        /\ IsExample =>
             /\ ret[4][2].some /\ CoordOf(ret[4][2].val) = <<2, 0, 0, 0>>
             /\ ret[3][2].some /\ CoordOf(ret[3][2].val) = <<2, 0, 0, 0>>
             /\ ret[2][2] = None
             /\ ret[1][2] = None

C1_Witness ==
    /\ call.op = "sort_scsi_info"
    /\ IsExample
    /\ ret[4][2].some
    /\ ret[2][2] = None

\* C15: sort_scsi_info keeps the length and the order of the slice: the
\* output has one pair for each record, and the first component of the i-th
\* pair is the i-th record in every field, records of the same coordinates
\* included.
C15_OrderAndLength ==
    call.op = "sort_scsi_info" =>
        /\ Len(ret) = Len(info)
        /\ \A i \in 1..Len(info) : ret[i][1] = info[i]

C15_Witness ==
    /\ call.op = "sort_scsi_info"
    /\ Len(info) = 4
    /\ CoordOf(info[2]) = CoordOf(info[3])
    /\ info[2] # info[3]
    /\ Len(ret) = 4
    /\ ret[3][1] = info[3]

\* in every pair (d, Some(h)) the record h is at (d.host, 0, 0, 0), is not at
\* the coordinates of d, and is in every field the first record of the
\* slice at (d.host, 0, 0, 0)
HostIsFirstCopy ==
    call.op = "sort_scsi_info" =>
        \A i \in 1..Len(ret) :
            ret[i][2].some =>
                \A d \in {ret[i][1]}, h \in {ret[i][2].val} :
                    /\ h.host = d.host /\ h.channel = 0 /\ h.id = 0 /\ h.lun = 0
                    /\ CoordOf(h) # CoordOf(d)
                    /\ \E p \in 1..Len(info) :
                          /\ CoordOf(info[p]) = <<d.host, 0, 0, 0>>
                          /\ \A q \in 1..(p - 1) : CoordOf(info[q]) # <<d.host, 0, 0, 0>>
                          /\ h = info[p]

\* C26: in every pair (d, Some(h)) returned by sort_scsi_info, h is at
\* (d.host, 0, 0, 0), differs from d in a coordinate and is a full copy of
\* the first record of the slice at those coordinates, also when several
\* records are there; the call leaves the slice as it was.
C26_HostCopy == []HostIsFirstCopy /\ [][info' = info]_vars

C26_Witness ==
    /\ call.op = "sort_scsi_info"
    /\ Len(info) = 3
    /\ CoordOf(info[1]) = <<2, 0, 0, 0>> /\ info[1].vendor = "Lsi"
    /\ CoordOf(info[2]) = <<2, 0, 0, 0>> /\ info[2].vendor = "None"
    /\ CoordOf(info[3]) = <<2, 1, 0, 0>>
    /\ ret[3][2] = Some(info[1])

(***************************************************************************)
(* The classifier: one udev::Device handle to typed attributes             *)
(***************************************************************************)

\* a value returned by a function that has no Result type
Ret(v) == [kind |-> "Value", val |-> v]

\* udev::Device::property_value / attribute_value: Some(text) or None
property_value(dev, key) == dev.props[key]
attribute_value(dev, key) == dev.attrs[key]

\* a plausible slip: the property rules are tried before the name rules
get_media_type_props_first(dev) ==
    LET device_sysname == dev.sysname IN
    IF property_value(dev, "DM_NAME").some THEN "LVM"
    ELSE IF property_value(dev, "ID_ATA_ROTATION_RATE_RPM").some
    THEN IF property_value(dev, "ID_ATA_ROTATION_RATE_RPM").val = <<"0">>
         THEN "SolidState" ELSE "Rotational"
    ELSE IF MatchesWordDigits(device_sysname, <<"l", "o", "o", "p">>) THEN "Loopback"
    ELSE IF MatchesWordDigits(device_sysname, <<"r", "a", "m">>) THEN "Ram"
    ELSE IF MatchesWordDigits(device_sysname, <<"m", "d">>) THEN "MdRaid"
    ELSE IF Contains(device_sysname, <<"n", "v", "m", "e">>) THEN "NVME"
    ELSE IF property_value(dev, "ID_VENDOR").some
    THEN IF property_value(dev, "ID_VENDOR").val = <<"Q", "E", "M", "U">>
         THEN "Virtual" ELSE "Unknown"
    ELSE "Unknown"

\* fn get_media_type
get_media_type(dev) ==
    LET device_sysname == dev.sysname IN
    IF MatchesWordDigits(device_sysname, <<"l", "o", "o", "p">>) THEN "Loopback"
    ELSE IF MatchesWordDigits(device_sysname, <<"r", "a", "m">>) THEN "Ram"
    ELSE IF MatchesWordDigits(device_sysname, <<"m", "d">>) THEN "MdRaid"
    ELSE IF Contains(device_sysname, <<"n", "v", "m", "e">>) THEN "NVME"
    ELSE IF property_value(dev, "DM_NAME").some THEN "LVM"
    ELSE IF property_value(dev, "ID_ATA_ROTATION_RATE_RPM").some
    THEN IF property_value(dev, "ID_ATA_ROTATION_RATE_RPM").val = <<"0">>
         THEN "SolidState" ELSE "Rotational"
    ELSE IF property_value(dev, "ID_VENDOR").some
    THEN IF property_value(dev, "ID_VENDOR").val = <<"Q", "E", "M", "U">>
         THEN "Virtual" ELSE "Unknown"
    ELSE "Unknown"

\* enum FilesystemType
Fs(tag) == [tag |-> tag]
Unrecognised(name) == [tag |-> "Unrecognised", name |-> name]

\* the names FilesystemType::from_str matches, with their variants
FsNames ==
    {<<<<"b", "t", "r", "f", "s">>, "Btrfs">>, <<<<"e", "x", "t", "2">>, "Ext2">>, <<<<"e", "x", "t", "3">>, "Ext3">>,
     <<<<"e", "x", "t", "4">>, "Ext4">>, <<<<"l", "v", "m", "2", "_", "m", "e", "m", "b", "e", "r">>, "Lvm">>, <<<<"x", "f", "s">>, "Xfs">>,
     <<<<"z", "f", "s">>, "Zfs">>, <<<<"v", "f", "a", "t">>, "Vfat">>, <<<<"n", "t", "f", "s">>, "Ntfs">>}

\* impl FromStr for FilesystemType: s is shadowed by its lower-cased copy,
\* and the catch-all arm binds that copy
FilesystemType_from_str(s0) ==
    LET s == ToLower(s0) IN
    IF \E p \in FsNames : p[1] = s
    THEN Ok(Fs((CHOOSE p \in FsNames : p[1] = s)[2]))
    ELSE IF s = <<>>
    THEN Ok(Fs("Unknown"))
    ELSE LET name == s IN Ok(Unrecognised(name))

\* fn get_fs_type
get_fs_type(dev) ==
    IF property_value(dev, "ID_FS_TYPE").some
    THEN FilesystemType_from_str(property_value(dev, "ID_FS_TYPE").val)
    ELSE Ok(Fs("Unknown"))

(***************************************************************************)
(* u64 arithmetic.  A u64 is four 16-bit limbs, least significant first,   *)
(* so that the 64-bit width is kept exactly.                               *)
(***************************************************************************)
LimbBase == 2^16

U64Zero == <<0, 0, 0, 0>>

\* l * m + a over four limbs, with the carry out of the top limb
MulAdd(l, m, a) ==
    LET t1 == l[1] * m + a
        t2 == l[2] * m + (t1 \div LimbBase)
        t3 == l[3] * m + (t2 \div LimbBase)
        t4 == l[4] * m + (t3 \div LimbBase)
    IN  [limbs |-> <<t1 % LimbBase, t2 % LimbBase, t3 % LimbBase, t4 % LimbBase>>,
         carry |-> t4 \div LimbBase]

RECURSIVE ParseDigits(_, _, _)
\* the digit loop of <u64 as FromStr>::from_str: checked_mul(10) and
\* checked_add(digit); None stands for Err(ParseIntError)
ParseDigits(s, i, acc) ==
    IF i > Len(s) THEN Some(acc)
    ELSE IF ~IsDigit(s[i]) THEN None
    ELSE LET r == MulAdd(acc, 10, DigitVal(s[i])) IN
         IF r.carry # 0 THEN None ELSE ParseDigits(s, i + 1, r.limbs)

\* str::parse::<u64>(): an optional leading "+", then one or more digits
ParseU64(s) ==
    IF s = <<>> THEN None
    ELSE IF s[1] = "+"
    THEN IF Len(s) = 1 THEN None ELSE ParseDigits(s, 2, U64Zero)
    ELSE ParseDigits(s, 1, U64Zero)

\* fn get_size.  size * 512 is an unchecked u64 multiplication: a build with
\* overflow checks panics when the product does not fit, a build without
\* them keeps the low 64 bits.
get_size(dev, overflow_checks) ==
    IF attribute_value(dev, "size").some
    THEN LET parsed == ParseU64(attribute_value(dev, "size").val)
             size == IF parsed.some THEN parsed.val ELSE U64Zero
             prod == MulAdd(size, 512, 0)
         IN  IF prod.carry # 0 /\ overflow_checks
             THEN Panic("attempt to multiply with overflow")
             ELSE Ret(Some(prod.limbs))
    ELSE Ret(None)

\* Device::from_udev_device, the capacity field
device_capacity(dev, overflow_checks) ==
    LET r == get_size(dev, overflow_checks) IN
    IF r.kind = "Panic" THEN r
    ELSE IF r.val.some THEN Ret(r.val.val) ELSE Ret(U64Zero)

\* the handles the classifier is applied to
SysNames ==
    {<<"l", "o", "o", "p", "7">>, <<"r", "a", "m", "0">>, <<"m", "d", "1", "2", "7">>, <<"n", "v", "m", "e", "0", "n", "1">>, <<"s", "d", "a">>, <<"l", "o", "o", "p">>,
     <<"r", "a", "m", "l", "o", "o", "p", "3">>, <<"n", "v", "m", "e", "0", "m", "d", "1">>}
DmNames == {None, Some(<<"v", "g">>)}
RotationRates == {None, Some(<<"0">>), Some(<<"7", "2", "0", "0">>)}
IdVendors == {None, Some(<<"Q", "E", "M", "U">>), Some(<<"A", "T", "A">>)}
FsTypes ==
    {None, Some(<<>>), Some(<<"e", "x", "t", "4">>), Some(<<"E", "x", "t", "4">>), Some(<<"X", "F", "S">>),
     Some(<<"l", "v", "m", "2", "_", "m", "e", "m", "b", "e", "r">>), Some(<<"b", "t", "r", "f", "s">>), Some(<<"R", "e", "i", "s", "e", "r", "F", "S">>), Some(<<"f", "2", "f", "s">>)}
\* 2^55 - 1, 2^55, 2^64 - 1 and 2^64 are the edges of size * 512 and of u64
Sizes ==
    {None, Some(<<>>), Some(<<"0">>), Some(<<"1">>), Some(<<"2", "0", "4", "8">>), Some(<<"+", "8">>),
     Some(<<"a", "b", "c">>), Some(<<"1", "2", "x">>),
     Some(<<"3", "6", "0", "2", "8", "7", "9", "7", "0", "1", "8", "9", "6", "3", "9", "6", "7">>), Some(<<"3", "6", "0", "2", "8", "7", "9", "7", "0", "1", "8", "9", "6", "3", "9", "6", "8">>),
     Some(<<"1", "8", "4", "4", "6", "7", "4", "4", "0", "7", "3", "7", "0", "9", "5", "5", "1", "6", "1", "5">>), Some(<<"1", "8", "4", "4", "6", "7", "4", "4", "0", "7", "3", "7", "0", "9", "5", "5", "1", "6", "1", "6">>)}

Handles ==
    {[sysname |-> n,
      props |-> [DM_NAME |-> dm, ID_ATA_ROTATION_RATE_RPM |-> rot,
                 ID_VENDOR |-> ven, ID_FS_TYPE |-> fs],
      attrs |-> [size |-> sz]] :
        n \in SysNames, dm \in DmNames, rot \in RotationRates,
        ven \in IdVendors, fs \in FsTypes, sz \in Sizes}

InitClassify ==
    /\ device \in Handles
    /\ info = <<>>
    /\ db = <<>>
    /\ procScsi = <<>>
    /\ mtab = <<>>
    /\ sysScsi = <<>>
    /\ present = Inventories
    /\ rcLocal = NoFile
    /\ log = <<>>
    /\ call = NoCall
    /\ ret = NoRet

GetMediaType ==
    /\ call = NoCall
    /\ call' = [op |-> "get_media_type"]
    /\ ret' = Ret(get_media_type(device))
    /\ UNCHANGED <<info, device, db, procScsi, sysScsi, mtab, present, rcLocal, log>>

GetFsType ==
    /\ call = NoCall
    /\ call' = [op |-> "get_fs_type"]
    /\ ret' = get_fs_type(device)
    /\ UNCHANGED <<info, device, db, procScsi, sysScsi, mtab, present, rcLocal, log>>

DeviceCapacity ==
    /\ call = NoCall
    /\ \E overflow_checks \in BOOLEAN :
         /\ call' = [op |-> "capacity", overflow_checks |-> overflow_checks]
         /\ ret' = device_capacity(device, overflow_checks)
    /\ UNCHANGED <<info, device, db, procScsi, sysScsi, mtab, present, rcLocal, log>>

NextClassify == GetMediaType \/ GetFsType \/ DeviceCapacity

SpecClassify == InitClassify /\ [][NextClassify]_vars

\* C2: get_media_type is the first-match-wins chain loop<digits>, ram<digits>,
\* md<digits>, "nvme", DM_NAME, ID_ATA_ROTATION_RATE_RPM ("0" is SolidState,
\* anything else Rotational), ID_VENDOR = "QEMU", Unknown; loop7 is Loopback
\* whatever its properties, and an absent rotation rate falls through to
\* the ID_VENDOR rule.
C2_MediaType ==
    call.op = "get_media_type" =>
        LET n == device.sysname
            p == device.props
            isLoop == MatchesWordDigits(n, <<"l", "o", "o", "p">>)
            isRam == MatchesWordDigits(n, <<"r", "a", "m">>)
            isMd == MatchesWordDigits(n, <<"m", "d">>)
            isNvme == Contains(n, <<"n", "v", "m", "e">>)
            byName == isLoop \/ isRam \/ isMd \/ isNvme
            hasDm == p.DM_NAME.some
            hasRot == p.ID_ATA_ROTATION_RATE_RPM.some
            m == ret.val
        IN  /\ ret.kind = "Value"
            /\ isLoop => m = "Loopback"
            /\ (~isLoop /\ isRam) => m = "Ram"
            /\ (~isLoop /\ ~isRam /\ isMd) => m = "MdRaid"
            /\ (~isLoop /\ ~isRam /\ ~isMd /\ isNvme) => m = "NVME"
            /\ (~byName /\ hasDm) => m = "LVM"
            /\ (~byName /\ ~hasDm /\ hasRot) =>
                  m = IF p.ID_ATA_ROTATION_RATE_RPM.val = <<"0">>
                      THEN "SolidState" ELSE "Rotational"
            /\ (~byName /\ ~hasDm /\ ~hasRot) =>
                  m = IF p.ID_VENDOR = Some(<<"Q", "E", "M", "U">>) THEN "Virtual" ELSE "Unknown"
            /\ n = <<"l", "o", "o", "p", "7">> => m = "Loopback"

C2_Witness ==
    /\ call.op = "get_media_type"
    /\ device.sysname = <<"l", "o", "o", "p", "7">>
    /\ device.props.DM_NAME.some
    /\ device.props.ID_ATA_ROTATION_RATE_RPM = Some(<<"0">>)
    /\ ret = Ret("Loopback")

\* C9: ID_FS_TYPE is classified case-insensitively into the recognised
\* names, absent or empty gives Unknown, and every other non-empty string s
\* gives Unrecognised(s) with s exactly as supplied.
C9_FsTypeVerbatim ==
    call.op = "get_fs_type" =>
        LET v == device.props.ID_FS_TYPE IN
        /\ ret.kind = "Ok"
        /\ (~v.some \/ v = Some(<<>>)) => ret.val = Fs("Unknown")
        /\ (v.some /\ v.val # <<>>) =>
              IF \E p \in FsNames : p[1] = ToLower(v.val)
              THEN \E p \in FsNames : p[1] = ToLower(v.val) /\ ret.val = Fs(p[2])
              ELSE ret.val = Unrecognised(v.val)

\* the exact product l * 512 as five limbs
Times512(l) ==
    LET r == MulAdd(l, 512, 0) IN r.limbs \o <<r.carry>>

\* C10: the capacity is the size attribute times 512 for every sector count
\* that parses as a u64, with no wraparound and no abort; an absent or
\* unparsable size gives 0.
C10_Capacity ==
    call.op = "capacity" =>
        LET sz == device.attrs.size
            parsed == IF sz.some THEN ParseU64(sz.val) ELSE None
        IN  /\ ret.kind = "Value"
            /\ parsed.some => ret.val \o <<0>> = Times512(parsed.val)
            /\ ~parsed.some => ret.val = U64Zero

(***************************************************************************)
(* The topology resolver over the udev database                            *)
(***************************************************************************)

\* Path::new("/dev").join(sysname)
DevPath(sysname) == <<"/", "d", "e", "v", "/">> \o sysname

\* a plausible slip: the path is built from the handle, not from its parent
get_parent_name_self(dev) ==
    IF dev.parent.some
    THEN LET parent_dev == dev.parent.val IN
         IF parent_dev.devtype.some
         THEN IF parent_dev.devtype.val = <<"d", "i", "s", "k">>
              THEN Some(DevPath(dev.sysname))
              ELSE None
         ELSE None
    ELSE None

\* fn get_parent_name: the parent handle's path when its devtype is disk or
\* partition
get_parent_name(dev) ==
    IF dev.parent.some
    THEN LET parent_dev == dev.parent.val IN
         IF parent_dev.devtype.some
         THEN IF parent_dev.devtype.val = <<"d", "i", "s", "k">> \/ parent_dev.devtype.val = <<"p", "a", "r", "t", "i", "t", "i", "o", "n">>
              THEN Some(DevPath(parent_dev.sysname))
              ELSE None
         ELSE None
    ELSE None

\* one pass of the loop body of get_parent_devpath_from_path: Some(name)
\* when this handle makes the function return, None when the loop goes on
ParentStep(dev, dev_path) ==
    IF dev.devtype.some /\ (dev.devtype.val = <<"d", "i", "s", "k">> \/ dev.devtype.val = <<"p", "a", "r", "t", "i", "t", "i", "o", "n">>)
    THEN LET name == DevPath(dev.sysname)
             byName == dev_path = name /\ get_parent_name(dev).some
             links == property_value(dev, "DEVLINKS")
             byLink == /\ links.some
                       /\ Contains(links.val, dev_path)
                       /\ get_parent_name(dev).some
         IN  IF byName \/ byLink THEN get_parent_name(dev) ELSE None
    ELSE None

RECURSIVE ParentLoop(_, _, _)
\* for device in host_devices { ... } Ok(None)
ParentLoop(host_devices, i, dev_path) ==
    IF i > Len(host_devices) THEN Ok(None)
    ELSE LET step == ParentStep(host_devices[i], dev_path) IN
         IF step.some THEN Ok(step) ELSE ParentLoop(host_devices, i + 1, dev_path)

\* a plausible slip: the first handle that answers for the path decides, with
\* or without a parent
get_parent_devpath_first_match(host_devices, dev_path) ==
    LET Answers(dev) ==
            /\ dev.devtype.some
            /\ (dev.devtype.val = <<"d", "i", "s", "k">> \/ dev.devtype.val = <<"p", "a", "r", "t", "i", "t", "i", "o", "n">>)
            /\ \/ dev_path = DevPath(dev.sysname)
               \/ /\ property_value(dev, "DEVLINKS").some
                  /\ Contains(property_value(dev, "DEVLINKS").val, dev_path)
        hits == {i \in 1..Len(host_devices) : Answers(host_devices[i])}
    IN  IF hits = {} THEN Ok(None) ELSE Ok(get_parent_name(host_devices[Min(hits)]))

\* fn get_parent_devpath_from_path
get_parent_devpath_from_path(host_devices, dev_path) ==
    ParentLoop(host_devices, 1, dev_path)

\* a plausible slip: a block handle without a devtype is of neither kind
IsRequestedStrict(dev, requested_dev_type) ==
    /\ dev.subsystem = Some(<<"b", "l", "o", "c", "k">>)
    /\ dev.devtype.some
    /\ LET is_partition == dev.devtype.val = <<"p", "a", "r", "t", "i", "t", "i", "o", "n">>
           dev_type == IF is_partition THEN "Partition" ELSE "Disk"
       IN  dev_type = requested_dev_type

\* the filter_map closure of get_specific_block_device_iter
IsRequested(dev, requested_dev_type) ==
    /\ dev.subsystem = Some(<<"b", "l", "o", "c", "k">>)
    /\ LET is_partition == dev.devtype.some /\ dev.devtype.val = <<"p", "a", "r", "t", "i", "t", "i", "o", "n">>
           dev_type == IF is_partition THEN "Partition" ELSE "Disk"
       IN  dev_type = requested_dev_type

\* fn get_specific_block_device_iter
get_specific_block_device(host_devices, requested_dev_type) ==
    LET Keep(dev) == IsRequested(dev, requested_dev_type)
        kept == SelectSeq(host_devices, Keep)
    IN  [i \in 1..Len(kept) |-> DevPath(kept[i].sysname)]

\* fn get_block_partitions_iter
get_block_partitions(host_devices) == get_specific_block_device(host_devices, "Partition")

\* fn get_children_devpaths_from_path
get_children_devpaths_from_path(host_devices, dev_path) ==
    LET IsChild(partition) ==
            LET r == get_parent_devpath_from_path(host_devices, partition) IN
            IF r.kind = "Ok" /\ r.val.some THEN dev_path = r.val.val ELSE FALSE
    IN  Ok(SelectSeq(get_block_partitions(host_devices), IsChild))

\* the handles of the database: two disks, a partition of each, the SCSI
\* device the disks hang off and a block device without a devtype
DiskParent == [sysname |-> <<"0", ":", "0", ":", "0", ":", "0">>, devtype |-> Some(<<"s", "c", "s", "i", "_", "d", "e", "v", "i", "c", "e">>)]
ParentOf(n) == [sysname |-> n, devtype |-> Some(<<"d", "i", "s", "k">>)]
\* a DEVLINKS value: one by-id alias and one alias that has /dev/sda1 inside it
Links == <<"/", "d", "e", "v", "/", "b", "y", "/", "x", " ", "/", "d", "e", "v", "/", "s", "d", "a", "1", "b">>
LinkValues == {None, Some(Links)}

\* a handle of the database; a partition carries its number and a file
\* system, every handle a size of 2048 sectors
UdevHandle(n, st, dt, par, links) ==
    [sysname |-> n, subsystem |-> st, devtype |-> dt, parent |-> par,
     props |-> [DEVLINKS |-> links,
                ID_PART_ENTRY_NUMBER |-> IF dt = Some(<<"p", "a", "r", "t", "i", "t", "i", "o", "n">>) THEN Some(<<"1">>) ELSE None,
                ID_FS_TYPE |-> IF dt = Some(<<"p", "a", "r", "t", "i", "t", "i", "o", "n">>) THEN Some(<<"e", "x", "t", "4">>) ELSE None,
                ID_FS_UUID |-> None, ID_SERIAL |-> None, DM_NAME |-> None,
                ID_ATA_ROTATION_RATE_RPM |-> None, ID_VENDOR |-> None],
     attrs |-> [size |-> Some(<<"2", "0", "4", "8">>)]]

DbHandles ==
    {UdevHandle(n, Some(<<"b", "l", "o", "c", "k">>), Some(<<"d", "i", "s", "k">>), par, l) :
        n \in {<<"s", "d", "a">>, <<"s", "d", "b">>}, par \in {None, Some(DiskParent)}, l \in LinkValues}
    \cup
    {UdevHandle(n, Some(<<"b", "l", "o", "c", "k">>), Some(<<"p", "a", "r", "t", "i", "t", "i", "o", "n">>), Some(ParentOf(d)), l) :
        n \in {<<"s", "d", "a", "1">>, <<"s", "d", "b", "1">>}, d \in {<<"s", "d", "a">>, <<"s", "d", "b">>}, l \in LinkValues}
    \cup
    {UdevHandle(<<"0", ":", "0", ":", "0", ":", "0">>, Some(<<"s", "c", "s", "i">>), Some(<<"s", "c", "s", "i", "_", "d", "e", "v", "i", "c", "e">>), None, None),
     UdevHandle(<<"l", "o", "o", "p", "0">>, Some(<<"b", "l", "o", "c", "k">>), None, None, None)}

MaxDb == 3

\* a sysname names one handle
DistinctNames(s) == \A i, j \in 1..Len(s) : s[i].sysname = s[j].sysname => i = j

LookupPaths == {DevPath(<<"s", "d", "a">>), DevPath(<<"s", "d", "a", "1">>), DevPath(<<"s", "d", "b", "1">>), <<"/", "d", "e", "v", "/", "b", "y", "/", "x">>}

InitTopo ==
    /\ db \in {s \in SeqsUpTo(DbHandles, MaxDb) : DistinctNames(s)}
    /\ info = <<>>
    /\ device = NoCall
    /\ procScsi = <<>>
    /\ mtab = <<>>
    /\ sysScsi = <<>>
    /\ present = Inventories
    /\ rcLocal = NoFile
    /\ log = <<>>
    /\ call = NoCall
    /\ ret = NoRet

GetParent ==
    /\ call = NoCall
    /\ \E p \in LookupPaths :
         /\ call' = [op |-> "get_parent_devpath_from_path", path |-> p]
         /\ ret' = get_parent_devpath_from_path(db, p)
    /\ UNCHANGED <<info, device, db, procScsi, sysScsi, mtab, present, rcLocal, log>>

GetChildren ==
    /\ call = NoCall
    /\ \E p \in LookupPaths :
         /\ call' = [op |-> "get_children_devpaths_from_path", path |-> p]
         /\ ret' = get_children_devpaths_from_path(db, p)
    /\ UNCHANGED <<info, device, db, procScsi, sysScsi, mtab, present, rcLocal, log>>

NextTopo == GetParent \/ GetChildren

SpecTopo == InitTopo /\ [][NextTopo]_vars

\* handle b is a partition whose parent pointer is a disk that is in the database
IsPartitionOfDisk(b, a) ==
    /\ db[b].devtype = Some(<<"p", "a", "r", "t", "i", "t", "i", "o", "n">>)
    /\ db[a].devtype = Some(<<"d", "i", "s", "k">>)
    /\ db[b].parent.some
    /\ db[b].parent.val.sysname = db[a].sysname
    /\ db[b].parent.val.devtype = Some(<<"d", "i", "s", "k">>)

\* what C3 promises of the call in `call` for the pair (a, b)
ParentAndChild(a, b) ==
    /\ (call.op = "get_parent_devpath_from_path" /\ call.path = DevPath(db[b].sysname))
          => ret = Ok(Some(DevPath(db[a].sysname)))
    /\ (call.op = "get_children_devpaths_from_path" /\ call.path = DevPath(db[a].sysname))
          => ret.kind = "Ok" /\ DevPath(db[b].sysname) \in Range(ret.val)

\* C3 as stated: for a disk A and a partition B whose parent pointer is A,
\* get_parent(/dev/B) is Some(/dev/A) and /dev/B is among get_children(/dev/A),
\* whatever the other handles, their DEVLINKS and the enumeration order.
C3_Original ==
    \A a, b \in 1..Len(db) : IsPartitionOfDisk(b, a) => ParentAndChild(a, b)

\* a handle enumerated before b that answers for /dev/B through its DEVLINKS
\* and has a parent of devtype disk or partition
AliasedBefore(b) ==
    \E c \in 1..(b - 1) :
        /\ db[c].devtype \in {Some(<<"d", "i", "s", "k">>), Some(<<"p", "a", "r", "t", "i", "t", "i", "o", "n">>)}
        /\ get_parent_name(db[c]).some
        /\ \/ DevPath(db[c].sysname) = DevPath(db[b].sysname)
           \/ /\ db[c].props.DEVLINKS.some
              /\ Contains(db[c].props.DEVLINKS.val, DevPath(db[b].sysname))

\* C3 (amended): the same, provided B is in the block subsystem and no handle
\* enumerated before B that has devtype disk or partition and a parent of
\* devtype disk or partition has the text /dev/B inside its DEVLINKS.
C3_ParentChild ==
    \A a, b \in 1..Len(db) :
        (/\ IsPartitionOfDisk(b, a)
         /\ db[b].subsystem = Some(<<"b", "l", "o", "c", "k">>)
         /\ ~AliasedBefore(b)) => ParentAndChild(a, b)

C3_Witness ==
    /\ call.op = "get_children_devpaths_from_path"
    /\ Len(db) = 3
    /\ \E a, b \in 1..Len(db) :
         /\ IsPartitionOfDisk(b, a)
         /\ ~AliasedBefore(b)
         /\ \E c \in (b + 1)..Len(db) :
               /\ db[c].props.DEVLINKS.some
               /\ Contains(db[c].props.DEVLINKS.val, DevPath(db[b].sysname))
               /\ get_parent_name(db[c]).some
         /\ call.path = DevPath(db[a].sysname)
         /\ DevPath(db[b].sysname) \in Range(ret.val)

(***************************************************************************)
(* The mount table lookups over /etc/mtab                                  *)
(***************************************************************************)

RECURSIVE SplitOn(_, _, _, _)
\* the pieces of s between occurrences of the character sep, from offset i
\* on, cur being the piece under construction
SplitOn(s, sep, i, cur) ==
    LET seps == {j \in i..Len(s) : s[j] = sep} IN
    IF seps = {} THEN <<cur \o SubSeq(s, i, Len(s))>>
    ELSE <<cur \o SubSeq(s, i, Min(seps) - 1)>> \o SplitOn(s, sep, Min(seps) + 1, <<>>)

\* BufRead::lines: the text cut at "\n", a trailing "\r" dropped from each
\* line, and no empty line after a final "\n"
Lines(text) ==
    LET raw == SplitOn(text, "\n", 1, <<>>)
        cut == IF raw[Len(raw)] = <<>> THEN SubSeq(raw, 1, Len(raw) - 1) ELSE raw
        Chomp(l) == IF l # <<>> /\ l[Len(l)] = "\r" THEN SubSeq(l, 1, Len(l) - 1) ELSE l
    IN  [i \in 1..Len(cut) |-> Chomp(cut[i])]

RECURSIVE SplitWhitespaceFrom(_, _, _)
\* str::split_whitespace, from offset i on, cur being the field under
\* construction: the maximal runs of non-blank characters
SplitWhitespaceFrom(s, i, cur) ==
    IF i > Len(s) THEN (IF cur = <<>> THEN <<>> ELSE <<cur>>)
    ELSE IF IsSpace(s[i])
    THEN (IF cur = <<>> THEN <<>> ELSE <<cur>>) \o SplitWhitespaceFrom(s, i + 1, <<>>)
    ELSE SplitWhitespaceFrom(s, i + 1, Append(cur, s[i]))

\* l.split_whitespace().collect()
SplitWhitespace(s) == SplitWhitespaceFrom(s, 1, <<>>)

\* a plausible slip: a line is taken when one of its fields equals dir
MountDeviceHitExact(l, dir) == dir \in Range(SplitWhitespace(l))

\* get_mount_device: if l.contains(&dir)
MountDeviceHit(l, dir) == Contains(l, dir)

RECURSIVE MountDeviceLoop(_, _, _)
\* for line in reader.lines() { ... } Ok(None) of get_mount_device
MountDeviceLoop(lines, i, dir) ==
    IF i > Len(lines) THEN Ok(None)
    ELSE LET l == lines[i]
             parts == SplitWhitespace(l)
         IN  IF MountDeviceHit(l, dir) /\ parts # <<>>
             THEN Ok(Some(parts[1]))
             ELSE MountDeviceLoop(lines, i + 1, dir)

\* fn get_mount_device
get_mount_device(text, mount_dir) == MountDeviceLoop(Lines(text), 1, mount_dir)

\* a plausible slip: the line is searched for the device as a substring
MountpointHitSubstring(l, s) == Contains(l, s)

\* get_mountpoint: index >= 0 after the loop over the fields, i.e. some
\* field equals the device string
MountpointHit(l, s) == \E i \in 1..Len(SplitWhitespace(l)) : SplitWhitespace(l)[i] = s

RECURSIVE MountpointLoop(_, _, _)
\* for line in reader.lines() { ... } Ok(None) of get_mountpoint; parts[1]
\* is an indexing that panics on a line of one field
MountpointLoop(lines, i, s) ==
    IF i > Len(lines) THEN Ok(None)
    ELSE LET l == lines[i]
             parts == SplitWhitespace(l)
         IN  IF MountpointHit(l, s)
             THEN IF Len(parts) >= 2
                  THEN Ok(Some(parts[2]))
                  ELSE Panic("index out of bounds")
             ELSE MountpointLoop(lines, i + 1, s)

\* fn get_mountpoint
get_mountpoint(text, dev) == MountpointLoop(Lines(text), 1, dev)

\* the lines a mount table is made of
LineSda1 == <<"/", "d", "e", "v", "/", "s", "d", "a", "1", " ", "/", "m", "n", "t", "/", "d", "a", "t", "a", " ", "e", "x", "t", "4", " ", "r", "w", " ", "0", " ", "0">>
LineSdb1 == <<"/", "d", "e", "v", "/", "s", "d", "b", "1", " ", "/", "m", "n", "t", "/", "d", "a", "t", "a", "2", " ", "x", "f", "s", " ", "r", "w", " ", "0", " ", "0">>
MtabLines == {LineSda1, LineSdb1, <<>>, <<"/", "d", "e", "v", "/", "s", "d", "a">>, <<"t", "m", "p", "f", "s", " ", " ", "/", "r", "u", "n", "\t", "t", "m", "p", "f", "s", " ", "r", "w", " ", "0", " ", "0">>}
MaxLines == 3

RECURSIVE JoinLines(_, _)
\* the file whose lines are ls, each ended by "\n"
JoinLines(ls, i) ==
    IF i > Len(ls) THEN <<>> ELSE ls[i] \o <<"\n">> \o JoinLines(ls, i + 1)

MountDirs == {<<"/", "m", "n", "t", "/", "d", "a", "t", "a">>, <<"/", "m", "n", "t", "/", "d", "a", "t", "a", "2">>, <<"/", "m", "n", "t">>, <<"/", "s", "r", "v">>}
MountDevices == {<<"/", "d", "e", "v", "/", "s", "d", "a", "1">>, <<"/", "d", "e", "v", "/", "s", "d", "a">>, <<"/", "m", "n", "t", "/", "d", "a", "t", "a">>, <<"/", "d", "e", "v", "/", "s", "d", "c">>}

InitMount ==
    /\ mtab \in {JoinLines(ls, 1) : ls \in SeqsUpTo(MtabLines, MaxLines)}
    /\ info = <<>>
    /\ device = NoCall
    /\ db = <<>>
    /\ procScsi = <<>>
    /\ sysScsi = <<>>
    /\ present = Inventories
    /\ rcLocal = NoFile
    /\ log = <<>>
    /\ call = NoCall
    /\ ret = NoRet

GetMountDevice ==
    /\ call = NoCall
    /\ \E dir \in MountDirs :
         /\ call' = [op |-> "get_mount_device", arg |-> dir]
         /\ ret' = get_mount_device(mtab, dir)
    /\ UNCHANGED <<info, device, db, procScsi, sysScsi, mtab, present, rcLocal, log>>

GetMountpoint ==
    /\ call = NoCall
    /\ \E dev \in MountDevices :
         /\ call' = [op |-> "get_mountpoint", arg |-> dev]
         /\ ret' = get_mountpoint(mtab, dev)
    /\ UNCHANGED <<info, device, db, procScsi, sysScsi, mtab, present, rcLocal, log>>

NextMount == GetMountDevice \/ GetMountpoint

SpecMount == InitMount /\ [][NextMount]_vars

\* f is the k-th whitespace-separated field of line l: it is cut out of l at
\* some offset, has no blank inside, has a blank or the line's edge on both
\* sides, and k - 1 fields begin before it
IsFieldAt(l, j, f) ==
    /\ f # <<>>
    /\ StartsAt(l, f, j)
    /\ \A c \in Range(f) : ~IsSpace(c)
    /\ (j = 1 \/ IsSpace(l[j - 1]))
    /\ (j + Len(f) > Len(l) \/ IsSpace(l[j + Len(f)]))

FieldStarts(l) == {j \in 1..Len(l) : ~IsSpace(l[j]) /\ (j = 1 \/ IsSpace(l[j - 1]))}

IsKthField(l, k, f) ==
    \E j \in FieldStarts(l) :
        /\ IsFieldAt(l, j, f)
        /\ Cardinality({x \in FieldStarts(l) : x < j}) = k - 1

\* the lines of the mount table, as the file holds them
MtabFile == Lines(mtab)

\* C7 as stated: get_mountpoint(device) is the second field of the first line
\* whose raw text contains the device string as a substring, and None when
\* no line contains it.
C7_Original ==
    call.op = "get_mountpoint" =>
        LET hits == {i \in 1..Len(MtabFile) : Contains(MtabFile[i], call.arg)} IN
        IF hits = {}
        THEN ret = Ok(None)
        ELSE Cardinality(FieldStarts(MtabFile[Min(hits)])) >= 2
                => /\ ret.kind = "Ok"
                   /\ ret.val.some
                   /\ IsKthField(MtabFile[Min(hits)], 2, ret.val.val)

\* C7 (amended): get_mountpoint(device) looks for the first line one of whose
\* whitespace-separated fields equals the device string exactly; it returns
\* that line's second field (the call aborts if that line has one field
\* only) and None when no line has such a field.  With the only line
\* "/dev/sda1 /mnt/data ext4 rw 0 0", /dev/sda1 gives Some(/mnt/data) and
\* /dev/sda gives None.
C7_ExactField ==
    call.op = "get_mountpoint" =>
        LET hits == {i \in 1..Len(MtabFile) :
                        \E k \in 1..Len(MtabFile[i]) : IsKthField(MtabFile[i], k, call.arg)}
        IN  /\ IF hits = {}
               THEN ret = Ok(None)
               ELSE IF Cardinality(FieldStarts(MtabFile[Min(hits)])) >= 2
               THEN /\ ret.kind = "Ok"
                    /\ ret.val.some
                    /\ IsKthField(MtabFile[Min(hits)], 2, ret.val.val)
               ELSE ret.kind = "Panic"
            /\ MtabFile = <<LineSda1>> =>
                 /\ call.arg = <<"/", "d", "e", "v", "/", "s", "d", "a", "1">> => ret = Ok(Some(<<"/", "m", "n", "t", "/", "d", "a", "t", "a">>))
                 /\ call.arg = <<"/", "d", "e", "v", "/", "s", "d", "a">> => ret = Ok(None)

C7_Witness ==
    /\ call.op = "get_mountpoint"
    /\ call.arg = <<"/", "d", "e", "v", "/", "s", "d", "a", "1">>
    /\ MtabFile = <<LineSdb1, LineSda1>>
    /\ ret = Ok(Some(<<"/", "m", "n", "t", "/", "d", "a", "t", "a">>))

\* C8: get_mount_device(dir) is the first field of the first line, in file
\* order, whose text contains dir as a substring, and None when no line
\* contains it; a line mounting /mnt/data2 placed before the line mounting
\* /mnt/data is the one returned for /mnt/data.
C8_MountDevice ==
    call.op = "get_mount_device" =>
        LET hits == {i \in 1..Len(MtabFile) : Contains(MtabFile[i], call.arg)} IN
        /\ IF hits = {}
           THEN ret = Ok(None)
           ELSE /\ ret.kind = "Ok"
                /\ ret.val.some
                /\ IsKthField(MtabFile[Min(hits)], 1, ret.val.val)
        /\ (MtabFile = <<LineSdb1, LineSda1>> /\ call.arg = <<"/", "m", "n", "t", "/", "d", "a", "t", "a">>)
              => ret = Ok(Some(<<"/", "d", "e", "v", "/", "s", "d", "b", "1">>))

C8_Witness ==
    /\ call.op = "get_mount_device"
    /\ call.arg = <<"/", "m", "n", "t", "/", "d", "a", "t", "a">>
    /\ MtabFile = <<LineSdb1, LineSda1>>
    /\ ret = Ok(Some(<<"/", "d", "e", "v", "/", "s", "d", "b", "1">>))

\* C27: get_mountpoint never aborts: for every mount table and device
\* string it returns Ok(None) or Ok(Some(m)) with m the second field of a
\* line of at least two fields, also when a line is the device string alone.
C27_NeverAborts ==
    call.op = "get_mountpoint" =>
        /\ ret.kind = "Ok"
        /\ ret.val.some =>
              \E i \in 1..Len(MtabFile) :
                  /\ Cardinality(FieldStarts(MtabFile[i])) >= 2
                  /\ IsKthField(MtabFile[i], 2, ret.val.val)

(***************************************************************************)
(* The legacy parser of /proc/scsi/scsi.  The grammar is written with      *)
(* nom's macros over &[u8]: tag! and take_while! are the streaming         *)
(* parsers (Incomplete when the input ends before they can decide),        *)
(* alpha1 and multispace0 are the ones imported from character::complete.  *)
(* A parser is applied to the text s at offset i and gives Ok with the     *)
(* offset after what it consumed, Error, or Incomplete.                    *)
(***************************************************************************)
\* the value of F at v, v computed once: one step of a parser sequence
Bind(v, F(_)) == CHOOSE y \in {F(x) : x \in {v}} : TRUE

POk(i, v) == [k |-> "Ok", i |-> i, v |-> v]
PError == [k |-> "Error"]
PIncomplete == [k |-> "Incomplete"]
PPanic == [k |-> "Panic"]

RECURSIVE RunEnd(_, _, _)
\* the offset after the longest run, from i on, of characters in the set cls
RunEnd(s, i, cls) ==
    IF i <= Len(s) /\ s[i] \in cls THEN RunEnd(s, i + 1, cls) ELSE i

Blanks == {" ", "\t", "\n", "\r"}
Letters == Range(UpperCase) \cup Range(LowerCase)

\* multispace0 (complete): zero or more blanks, never fails
multispace0(s, i) == RunEnd(s, i, Blanks)

\* tag!(t) (streaming): Error at the first differing byte, Incomplete when
\* the input ends inside the tag
tag(s, i, t) ==
    LET avail == Len(s) - i + 1
        m == IF avail < Len(t) THEN avail ELSE Len(t)
    IN  IF \E k \in 1..m : s[i + k - 1] # t[k] THEN PError
        ELSE IF avail < Len(t) THEN PIncomplete
        ELSE POk(i + Len(t), t)

\* alpha1 (complete): one or more letters
alpha1(s, i) ==
    Bind(RunEnd(s, i, Letters), LAMBDA e :
        IF e = i THEN PError ELSE POk(e, SubSeq(s, i, e - 1)))

\* take_while!(is_digit) (streaming): Incomplete when the digits run to the
\* end of the input
take_while_digit(s, i) ==
    Bind(RunEnd(s, i, Range(Digits)), LAMBDA e :
        IF e > Len(s) THEN PIncomplete ELSE POk(e, SubSeq(s, i, e - 1)))

\* u8::from_str / u32::from_str on a run of digits: None for the empty run
\* and for a value that does not fit
ParseUnsigned(digits, bits) ==
    Bind(IF digits = <<>> THEN None ELSE ParseDigits(digits, 1, U64Zero), LAMBDA p :
        IF ~p.some THEN None
        ELSE IF bits = 8
        THEN IF p.val[1] < 256 /\ p.val[2] = 0 /\ p.val[3] = 0 /\ p.val[4] = 0
             THEN Some(p.val[1]) ELSE None
        ELSE IF p.val[3] = 0 /\ p.val[4] = 0
             THEN Some(p.val[1] + p.val[2] * LimbBase) ELSE None)

\* take_u8 / take_u32: map_res!(map_res!(take_while!(is_digit), from_utf8), from_str)
take_uint(s, i, bits) ==
    Bind(take_while_digit(s, i), LAMBDA d :
        IF d.k # "Ok" THEN d
        ELSE Bind(ParseUnsigned(d.v, bits), LAMBDA n :
                IF n.some THEN POk(d.i, n.val) ELSE PError))

\* trim!(tag!(t)): delimited!(multispace0, tag!(t), multispace0)
trim_tag(s, i, t) ==
    Bind(multispace0(s, i), LAMBDA j :
    Bind(tag(s, j, t), LAMBDA r :
        IF r.k # "Ok" THEN r ELSE POk(multispace0(s, r.i), r.v)))

\* host, channel, scsi_id, scsi_lun, revision:
\* trim!(preceded!(trim!(tag!(t)), take_uN))
number_field(s, i, t, bits) ==
    Bind(multispace0(s, i), LAMBDA j :
    Bind(trim_tag(s, j, t), LAMBDA a :
        IF a.k # "Ok" THEN a
        ELSE Bind(take_uint(s, a.i, bits), LAMBDA n :
                IF n.k # "Ok" THEN n ELSE POk(multispace0(s, n.i), n.v))))

\* vendor, model, rev, scsi_type:
\* trim!(map_res!(delimited!(trim!(tag!(t)), alpha1, tag!(delim)), from_utf8))
token_field(s, i, t, delim) ==
    Bind(multispace0(s, i), LAMBDA j :
    Bind(trim_tag(s, j, t), LAMBDA a :
        IF a.k # "Ok" THEN a
        ELSE Bind(alpha1(s, a.i), LAMBDA w :
                IF w.k # "Ok" THEN w
                ELSE Bind(tag(s, w.i, delim), LAMBDA d :
                        IF d.k # "Ok" THEN d ELSE POk(multispace0(s, d.i), w.v)))))

\* opt!(tag!(t)): an Error becomes "absent", Incomplete is passed on
opt_tag(s, i, t) ==
    Bind(tag(s, i, t), LAMBDA r :
        IF r.k = "Error" THEN POk(i, None)
        ELSE IF r.k = "Ok" THEN POk(r.i, Some(r.v))
        ELSE r)

\* the names Vendor::from_str matches, with their variants
VendorNames ==
    {<<<<"A", "T", "A">>, "None">>, <<<<"C", "I", "S", "C", "O">>, "Cisco">>, <<<<"H", "P">>, "Hp">>, <<<<"h", "p">>, "Hp">>,
     <<<<"H", "P", "E">>, "Hp">>, <<<<"L", "S", "I">>, "Lsi">>, <<<<"Q", "E", "M", "U">>, "Qemu">>, <<<<"V", "B", "O", "X">>, "Vbox">>,
     <<<<"N", "E", "C", "V", "M", "W", "a", "r">>, "NECVMWar">>, <<<<"V", "M", "w", "a", "r", "e">>, "VMware">>}

\* impl FromStr for Vendor
Vendor_from_str(s) ==
    IF \E p \in VendorNames : p[1] = s
    THEN Ok((CHOOSE p \in VendorNames : p[1] = s)[2])
    ELSE Err("Unknown Vendor")

\* the variants of ScsiDeviceType in the order of their numbers 0..31
ScsiDeviceTypes ==
    <<"DirectAccess", "SequentialAccess", "Printer", "Processor", "WriteOnce",
      "CdRom", "Scanner", "Opticalmemory", "MediumChanger", "Communications",
      "Unknowna", "Unknownb", "StorageArray", "Enclosure", "SimplifiedDirectAccess",
      "OpticalCardReadWriter", "BridgeController", "ObjectBasedStorage",
      "AutomationDriveInterface", "SecurityManager", "ZonedBlock", "Reserved15",
      "Reserved16", "Reserved17", "Reserved18", "Reserved19", "Reserved1a",
      "Reserved1b", "Reserved1c", "Reserved1e", "WellKnownLu", "NoDevice">>

\* the decimal text of n, 0 <= n <= 99, as the match arms spell it
Decimal(n) == IF n < 10 THEN <<Digits[n + 1]>> ELSE <<Digits[(n \div 10) + 1], Digits[(n % 10) + 1]>>

\* impl FromStr for ScsiDeviceType
ScsiDeviceType_from_str(s) ==
    IF \E n \in 0..31 : Decimal(n) = s
    THEN Ok(ScsiDeviceTypes[(CHOOSE n \in 0..31 : Decimal(n) = s) + 1])
    ELSE IF s = <<"D", "i", "r", "e", "c", "t", "-", "A", "c", "c", "e", "s", "s">> THEN Ok("DirectAccess")
    ELSE IF s = <<"E", "n", "c", "l", "o", "s", "u", "r", "e">> THEN Ok("Enclosure")
    ELSE IF s = <<"R", "A", "I", "D">> THEN Ok("StorageArray")
    ELSE Err("Unknown scheduler")

\* str::trim
Trim(s) ==
    LET a == RunEnd(s, 1, Blanks) IN
    IF a > Len(s) THEN <<>>
    ELSE LET b == CHOOSE j \in a..Len(s) :
                    ~IsSpace(s[j]) /\ \A x \in (j + 1)..Len(s) : IsSpace(s[x])
         IN  SubSeq(s, a, b)

\* the record of do_parse!'s final tuple; the two unwrap() calls panic on an
\* Err from Vendor::from_str or ScsiDeviceType::from_str
LegacyRecord(host, channel, id, lun, vendor, scsi_model, scsi_rev, scsi_type, revision) ==
    IF Vendor_from_str(vendor).kind # "Ok" \/ ScsiDeviceType_from_str(scsi_type).kind # "Ok"
    THEN None
    ELSE Some([block_device |-> None, enclosure |-> None,
               host |-> host, channel |-> channel, id |-> id, lun |-> lun,
               vendor |-> Vendor_from_str(vendor).val,
               model |-> Some(scsi_model),
               rev |-> Some(Trim(scsi_rev)),
               state |-> None,
               scsi_type |-> ScsiDeviceType_from_str(scsi_type).val,
               scsi_revision |-> revision])

\* the delimiter the model parser asks for after the Model token
ModelDelimiter == <<" ", " ">>

\* the do_parse! of scsi_host_info: one record
scsi_record(s, i) ==
    Bind(opt_tag(s, i, <<"A", "t", "t", "a", "c", "h", "e", "d", " ", "d", "e", "v", "i", "c", "e", "s", ":">>), LAMBDA o :
    IF o.k # "Ok" THEN o ELSE
    Bind(number_field(s, o.i, <<"H", "o", "s", "t", ":", " ", "s", "c", "s", "i">>, 8), LAMBDA h :
    IF h.k # "Ok" THEN h ELSE
    Bind(number_field(s, h.i, <<"C", "h", "a", "n", "n", "e", "l", ":">>, 8), LAMBDA c :
    IF c.k # "Ok" THEN c ELSE
    Bind(number_field(s, c.i, <<"I", "d", ":">>, 8), LAMBDA d :
    IF d.k # "Ok" THEN d ELSE
    Bind(number_field(s, d.i, <<"L", "u", "n", ":">>, 8), LAMBDA l :
    IF l.k # "Ok" THEN l ELSE
    Bind(token_field(s, l.i, <<"V", "e", "n", "d", "o", "r", ":">>, <<" ">>), LAMBDA v :
    IF v.k # "Ok" THEN v ELSE
    Bind(token_field(s, v.i, <<"M", "o", "d", "e", "l", ":">>, ModelDelimiter), LAMBDA m :
    IF m.k # "Ok" THEN m ELSE
    Bind(token_field(s, m.i, <<"R", "e", "v", ":">>, <<" ">>), LAMBDA r :
    IF r.k # "Ok" THEN r ELSE
    Bind(token_field(s, r.i, <<"T", "y", "p", "e", ":">>, <<" ">>), LAMBDA t :
    IF t.k # "Ok" THEN t ELSE
    Bind(number_field(s, t.i, <<"A", "N", "S", "I", " ", " ", "S", "C", "S", "I", " ", "r", "e", "v", "i", "s", "i", "o", "n", ":">>, 32), LAMBDA n :
    IF n.k # "Ok" THEN n ELSE
    Bind(LegacyRecord(h.v, c.v, d.v, l.v, v.v, m.v, r.v, t.v, n.v), LAMBDA rec :
    IF rec.some THEN POk(n.i, rec.val) ELSE PPanic)))))))))))

RECURSIVE many1_loop(_, _, _)
\* the loop of nom's many1 after the first record: an Error ends the
\* repetition with what was gathered, anything else is passed on
many1_loop(s, i, acc) ==
    Bind(scsi_record(s, i), LAMBDA r :
        IF r.k = "Error" THEN POk(i, acc)
        ELSE IF r.k # "Ok" THEN r
        ELSE IF r.i = i THEN PError
        ELSE many1_loop(s, r.i, Append(acc, r.v)))

\* named!(scsi_host_info, many1!(do_parse!(...)))
scsi_host_info(s) ==
    Bind(scsi_record(s, 1), LAMBDA r :
        IF r.k # "Ok" THEN r ELSE many1_loop(s, r.i, <<r.v>>))

\* get_scsi_info, the branch taken when /sys/bus/scsi/devices does not exist
get_scsi_info_legacy(buff) ==
    Bind(scsi_host_info(buff), LAMBDA r :
        IF r.k = "Ok" THEN Ok(r.v)
        ELSE IF r.k = "Incomplete" THEN Err("Unable to parse /proc/scsi/scsi output: needed more bytes")
        ELSE IF r.k = "Error" THEN Err("Unable to parse /proc/scsi/scsi output")
        ELSE Panic("unwrap on an Err value"))

\* the text padded with blanks on the right to n characters, as the kernel
\* prints the fixed-width vendor, model and rev fields
PadRight(t, n) == t \o [k \in 1..(IF Len(t) < n THEN n - Len(t) ELSE 0) |-> " "]

\* %02d of a number below 100
TwoDigits(n) == <<Digits[(n \div 10) + 1], Digits[(n % 10) + 1]>>

\* one record of /proc/scsi/scsi as the kernel prints it, the host number
\* given as text
RecordText(host, channel, id, lun, vendor, model, rev, type, revision) ==
    <<"H", "o", "s", "t", ":", " ", "s", "c", "s", "i">> \o host \o <<" ", "C", "h", "a", "n", "n", "e", "l", ":", " ">> \o TwoDigits(channel)
    \o <<" ", "I", "d", ":", " ">> \o TwoDigits(id) \o <<" ", "L", "u", "n", ":", " ">> \o TwoDigits(lun) \o <<"\n">>
    \o <<" ", " ", "V", "e", "n", "d", "o", "r", ":", " ">> \o PadRight(vendor, 8) \o <<" ", "M", "o", "d", "e", "l", ":", " ">> \o PadRight(model, 16)
    \o <<" ", "R", "e", "v", ":", " ">> \o PadRight(rev, 4) \o <<"\n">>
    \o <<" ", " ", "T", "y", "p", "e", ":", " ", " ", " ">> \o type \o <<" ">> \o <<" ", " ", " ", " ", "A", "N", "S", "I", " ", " ", "S", "C", "S", "I", " ", "r", "e", "v", "i", "s", "i", "o", "n", ":", " ">>
    \o TwoDigits(revision) \o <<"\n">>

Header == <<"A", "t", "t", "a", "c", "h", "e", "d", " ", "d", "e", "v", "i", "c", "e", "s", ":", "\n">>

\* well-formed records with names both from_str functions know, each with
\* the ScsiInfo it stands for
GoodParts ==
    {[kind |-> "good",
      text |-> RecordText(Decimal(h), 0, 0, 0, v[1], <<"D", "I", "S", "K">>, <<"A", "B">>, t[1], 5),
      info |-> [block_device |-> None, enclosure |-> None,
                host |-> h, channel |-> 0, id |-> 0, lun |-> 0,
                vendor |-> v[2], model |-> Some(<<"D", "I", "S", "K">>), rev |-> Some(<<"A", "B">>),
                state |-> None, scsi_type |-> t[2], scsi_revision |-> 5]] :
        h \in {0, 2},
        v \in {<<<<"A", "T", "A">>, "None">>, <<<<"L", "S", "I">>, "Lsi">>},
        t \in {<<<<"R", "A", "I", "D">>, "StorageArray">>, <<<<"E", "n", "c", "l", "o", "s", "u", "r", "e">>, "Enclosure">>}}

\* records that match the grammar but carry a Vendor or a Type token that
\* from_str does not know
OddParts ==
    {[kind |-> "odd",
      text |-> RecordText(<<"0">>, 0, 0, 1, <<"F", "o", "o">>, <<"D", "I", "S", "K">>, <<"A", "B">>, <<"R", "A", "I", "D">>, 5)],
     [kind |-> "odd",
      text |-> RecordText(<<"0">>, 0, 0, 1, <<"A", "T", "A">>, <<"D", "I", "S", "K">>, <<"A", "B">>, <<"P", "r", "o", "c", "e", "s", "s", "o", "r">>, 5)]}

\* records that do not match the grammar: a host that is no number, a host
\* that is no u8, a model of the full sixteen characters (one blank before
\* Rev:)
BadParts ==
    {[kind |-> "bad",
      text |-> RecordText(<<"X">>, 0, 0, 0, <<"A", "T", "A">>, <<"D", "I", "S", "K">>, <<"A", "B">>, <<"R", "A", "I", "D">>, 5)],
     [kind |-> "bad",
      text |-> RecordText(<<"2", "5", "6">>, 0, 0, 0, <<"A", "T", "A">>, <<"D", "I", "S", "K">>, <<"A", "B">>, <<"R", "A", "I", "D">>, 5)],
     [kind |-> "bad",
      text |-> RecordText(<<"1">>, 0, 0, 0, <<"A", "T", "A">>, <<"A", "B", "C", "D", "E", "F", "G", "H", "I", "J", "K", "L", "M", "N", "O", "P">>, <<"A", "B">>, <<"R", "A", "I", "D">>, 5)]}

Parts == GoodParts \cup OddParts \cup BadParts
MaxRecords == 2

RECURSIVE JoinParts(_, _)
JoinParts(ps, i) == IF i > Len(ps) THEN <<>> ELSE ps[i].text \o JoinParts(ps, i + 1)

\* the files: a header or none, then up to MaxRecords records
Blobs ==
    {[header |-> h, parts |-> ps, text |-> h \o JoinParts(ps, 1)] :
        h \in {<<>>, Header}, ps \in SeqsUpTo(Parts, MaxRecords)}

\* a file of two well-formed records, and its proper prefixes
TwoGood ==
    <<CHOOSE g \in GoodParts : g.info.host = 0 /\ g.info.vendor = "None" /\ g.info.scsi_type = "StorageArray",
      CHOOSE g \in GoodParts : g.info.host = 2 /\ g.info.vendor = "Lsi" /\ g.info.scsi_type = "Enclosure">>
TwoGoodText == Header \o JoinParts(TwoGood, 1)
Truncated == {SubSeq(TwoGoodText, 1, n) : n \in 0..(Len(TwoGoodText) - 1)}

\* a line that begins no record
Trailer == <<"-", "-", "\n">>

\* the file of one record of the given Type token, with such a line after it
TypedFile(type) ==
    Header \o RecordText(<<"0">>, 0, 0, 0, <<"A", "T", "A">>, <<"D", "I", "S", "K">>, <<"A", "B">>, type, 5) \o Trailer

\* files of one record with such a line after it
Trailed == {Header \o p.text \o Trailer : p \in Parts} \cup {TypedFile(<<"D", "i", "r", "e", "c", "t", "-", "A", "c", "c", "e", "s", "s">>)}

InitLegacy ==
    /\ procScsi \in {b.text : b \in Blobs} \cup Truncated \cup Trailed
    /\ info = <<>>
    /\ device = NoCall
    /\ db = <<>>
    /\ mtab = <<>>
    /\ sysScsi = <<>>
    /\ present = Inventories
    /\ rcLocal = NoFile
    /\ log = <<>>
    /\ call = NoCall
    /\ ret = NoRet

GetScsiInfoLegacy ==
    /\ call = NoCall
    /\ call' = [op |-> "get_scsi_info"]
    /\ ret' = get_scsi_info_legacy(procScsi)
    /\ UNCHANGED <<info, device, db, procScsi, sysScsi, mtab, present, rcLocal, log>>

NextLegacy == GetScsiInfoLegacy

SpecLegacy == InitLegacy /\ [][NextLegacy]_vars

KindsOf(b) == {b.parts[i].kind : i \in 1..Len(b.parts)}

\* C4: when some record of the file does not match the grammar (the others
\* being well-formed), get_scsi_info returns an error and not the records
\* parsed before the malformed one.
C4_AllOrNothing ==
    call.op = "get_scsi_info" =>
        \A b \in Blobs :
            (b.text = procScsi /\ "bad" \in KindsOf(b) /\ "odd" \notin KindsOf(b))
                => ret.kind = "Err"

\* the cuts of the two-record file that fall inside a record
MidRecordCuts ==
    LET h == Len(Header)
        a == h + Len(TwoGood[1].text)
        z == Len(TwoGoodText)
    IN  ((h + 1)..(a - 1)) \cup ((a + 1)..(z - 1))

\* C5: a well-formed file of exactly two records, ending at the end of the
\* input, parses into exactly those two records in input order; the file cut
\* in the middle of a record gives a parse error.
C5_TwoRecords ==
    call.op = "get_scsi_info" =>
        /\ \A b \in Blobs :
             (b.text = procScsi /\ Len(b.parts) = 2 /\ KindsOf(b) = {"good"})
                => ret = Ok(<<b.parts[1].info, b.parts[2].info>>)
        /\ \A n \in MidRecordCuts :
             procScsi = SubSeq(TwoGoodText, 1, n) => ret.kind = "Err"

\* C6: a record that matches the grammar but whose Vendor or Type token
\* from_str does not know makes the parse fail with an error value: the call
\* neither aborts nor yields a record.
C6_UnknownToken ==
    call.op = "get_scsi_info" =>
        \A b \in Blobs :
            (b.text = procScsi /\ "odd" \in KindsOf(b) /\ "bad" \notin KindsOf(b))
                => ret.kind = "Err"

\* the Type tokens ScsiDeviceType::from_str knows by name, with their variants
TypeNames ==
    {<<<<"D", "i", "r", "e", "c", "t", "-", "A", "c", "c", "e", "s", "s">>, "DirectAccess">>, <<<<"E", "n", "c", "l", "o", "s", "u", "r", "e">>, "Enclosure">>, <<<<"R", "A", "I", "D">>, "StorageArray">>}

\* C28: every Type token that ScsiDeviceType::from_str knows by name is
\* reachable through the legacy grammar: a record written with Type:
\* Direct-Access parses into a ScsiInfo of scsi_type DirectAccess, as records
\* with Enclosure and RAID parse into Enclosure and StorageArray.
C28_TypeTokens ==
    call.op = "get_scsi_info" =>
        \A t \in TypeNames :
            procScsi = TypedFile(t[1])
                => /\ ret.kind = "Ok"
                   /\ Len(ret.val) = 1
                   /\ ret.val[1].scsi_type = t[2]

\* the same for the tokens without a hyphen
C28_PlainTokens ==
    (call.op = "get_scsi_info" /\ procScsi # TypedFile(<<"D", "i", "r", "e", "c", "t", "-", "A", "c", "c", "e", "s", "s">>)) => C28_TypeTokens

(***************************************************************************)
(* The scan of /sys/bus/scsi/devices.  The tree is the sequence, in        *)
(* read_dir order, of the entries of the directory; an entry has a name    *)
(* and the sequence of its own entries; an attribute file has its text, a  *)
(* directory has its entries.                                              *)
(***************************************************************************)

\* u8::from_str: an optional leading "+", then one or more digits, the
\* value below 256; None stands for Err(ParseIntError)
u8_from_str(s) ==
    Bind(ParseU64(s), LAMBDA p :
        IF p.some /\ p.val[1] < 256 /\ p.val[2] = 0 /\ p.val[3] = 0 /\ p.val[4] = 0
        THEN Some(p.val[1]) ELSE None)

\* the names DeviceState::from_str matches
DeviceStateNames ==
    {<<<<"b", "l", "o", "c", "k", "e", "d">>, "Blocked">>, <<<<"f", "a", "i", "l", "f", "a", "s", "t">>, "FailFast">>, <<<<"l", "o", "s", "t">>, "Lost">>,
     <<<<"r", "u", "n", "n", "i", "n", "g">>, "Running">>, <<<<"r", "u", "n", "n", "i", "n", "g", "_", "r", "t", "a">>, "RunningRta">>}

\* impl FromStr for DeviceState
DeviceState_from_str(s) ==
    IF \E p \in DeviceStateNames : p[1] = s
    THEN Ok((CHOOSE p \in DeviceStateNames : p[1] = s)[2])
    ELSE Err("Unknown scsi state")

\* impl Default for Enclosure
Enclosure_default ==
    [active |-> None, fault |-> None, power_status |-> None, slot |-> 0,
     status |-> None, enclosure_type |-> None]

\* impl Default for ScsiInfo
ScsiInfo_default ==
    [block_device |-> None, enclosure |-> None,
     host |-> 0, channel |-> 0, id |-> 0, lun |-> 0,
     vendor |-> "None", model |-> None, rev |-> None, state |-> None,
     scsi_type |-> "NoDevice", scsi_revision |-> 0]

\* one round of the loop of get_enclosure_data
EnclosureStep(e, f) ==
    IF f.name = <<"a", "c", "t", "i", "v", "e">> THEN Ok([e EXCEPT !.active = Some(Trim(f.text))])
    ELSE IF f.name = <<"f", "a", "u", "l", "t">> THEN Ok([e EXCEPT !.fault = Some(Trim(f.text))])
    ELSE IF f.name = <<"p", "o", "w", "e", "r", "_", "s", "t", "a", "t", "u", "s">> THEN Ok([e EXCEPT !.power_status = Some(Trim(f.text))])
    ELSE IF f.name = <<"s", "l", "o", "t">>
    THEN Bind(u8_from_str(Trim(f.text)), LAMBDA n :
            IF n.some THEN Ok([e EXCEPT !.slot = n.val]) ELSE Err("ParseIntError"))
    ELSE IF f.name = <<"s", "t", "a", "t", "u", "s">> THEN Ok([e EXCEPT !.status = Some(Trim(f.text))])
    ELSE IF f.name = <<"t", "y", "p", "e">> THEN Ok([e EXCEPT !.enclosure_type = Some(Trim(f.text))])
    ELSE Ok(e)

RECURSIVE EnclosureLoop(_, _, _)
EnclosureLoop(files, i, e) ==
    IF i > Len(files) THEN Ok(e)
    ELSE Bind(EnclosureStep(e, files[i]), LAMBDA r :
            IF r.kind # "Ok" THEN r ELSE EnclosureLoop(files, i + 1, r.val))

\* fn get_enclosure_data
get_enclosure_data(files) == EnclosureLoop(files, 1, Enclosure_default)

\* one round of the inner loop of get_scsi_info: the entry f of a device's
\* directory; each ? returns the error from the whole scan
ScsiEntryStep(s, f) ==
    IF f.name = <<"b", "l", "o", "c", "k">>
    THEN IF f.entries # <<>>
         THEN Ok([s EXCEPT !.block_device = Some(<<"/", "d", "e", "v", "/">> \o f.entries[1].name)])
         ELSE Ok(s)
    ELSE IF StartsAt(f.name, <<"e", "n", "c", "l", "o", "s", "u", "r", "e", "_", "d", "e", "v", "i", "c", "e">>, 1)
    THEN Bind(get_enclosure_data(f.entries), LAMBDA e :
            IF e.kind # "Ok" THEN e ELSE Ok([s EXCEPT !.enclosure = Some(e.val)]))
    ELSE IF f.name = <<"m", "o", "d", "e", "l">> THEN Ok([s EXCEPT !.model = Some(Trim(f.text))])
    ELSE IF f.name = <<"r", "e", "v">> THEN Ok([s EXCEPT !.rev = Some(Trim(f.text))])
    ELSE IF f.name = <<"s", "t", "a", "t", "e">>
    THEN Bind(DeviceState_from_str(Trim(f.text)), LAMBDA r :
            IF r.kind # "Ok" THEN r ELSE Ok([s EXCEPT !.state = Some(r.val)]))
    ELSE IF f.name = <<"t", "y", "p", "e">>
    THEN Bind(ScsiDeviceType_from_str(Trim(f.text)), LAMBDA r :
            IF r.kind # "Ok" THEN r ELSE Ok([s EXCEPT !.scsi_type = r.val]))
    ELSE IF f.name = <<"v", "e", "n", "d", "o", "r">>
    THEN Bind(Vendor_from_str(Trim(f.text)), LAMBDA r :
            IF r.kind # "Ok" THEN r ELSE Ok([s EXCEPT !.vendor = r.val]))
    ELSE Ok(s)

RECURSIVE ScsiEntryLoop(_, _, _)
ScsiEntryLoop(files, i, s) ==
    IF i > Len(files) THEN Ok(s)
    ELSE Bind(ScsiEntryStep(s, files[i]), LAMBDA r :
            IF r.kind # "Ok" THEN r ELSE ScsiEntryLoop(files, i + 1, r.val))

\* a plausible slip: an entry with a part that is no u8 is passed over
ScsiDirStepLenient(d) ==
    IF d.name = <<>> THEN Ok(None)
    ELSE IF ~IsDigit(d.name[1]) THEN Ok(None)
    ELSE Bind(SplitOn(d.name, ":", 1, <<>>), LAMBDA parts :
         IF Len(parts) # 4 THEN Ok(None)
         ELSE Bind([k \in 1..4 |-> u8_from_str(parts[k])], LAMBDA n :
              IF \E k \in 1..4 : ~n[k].some THEN Ok(None)
              ELSE Bind(ScsiEntryLoop(d.entries, 1,
                            [ScsiInfo_default EXCEPT !.host = n[1].val, !.channel = n[2].val,
                                                     !.id = n[3].val, !.lun = n[4].val]),
                        LAMBDA r : IF r.kind # "Ok" THEN r ELSE Ok(Some(r.val)))))

\* the body of the outer loop for the directory entry d: Ok(None) when the
\* entry is skipped, Ok(Some(record)) when a record is pushed
ScsiDirStep(d) ==
    IF d.name = <<>> THEN Ok(None)
    ELSE IF ~IsDigit(d.name[1]) THEN Ok(None)
    ELSE Bind(SplitOn(d.name, ":", 1, <<>>), LAMBDA parts :
         IF Len(parts) # 4 THEN Ok(None)
         ELSE Bind([k \in 1..4 |-> u8_from_str(parts[k])], LAMBDA n :
              IF \E k \in 1..4 : ~n[k].some THEN Err("ParseIntError")
              ELSE Bind(ScsiEntryLoop(d.entries, 1,
                            [ScsiInfo_default EXCEPT !.host = n[1].val, !.channel = n[2].val,
                                                     !.id = n[3].val, !.lun = n[4].val]),
                        LAMBDA r : IF r.kind # "Ok" THEN r ELSE Ok(Some(r.val)))))

RECURSIVE ScsiDirLoop(_, _, _)
ScsiDirLoop(dirs, i, scsi_devices) ==
    IF i > Len(dirs) THEN Ok(scsi_devices)
    ELSE Bind(ScsiDirStep(dirs[i]), LAMBDA r :
            IF r.kind # "Ok" THEN r
            ELSE ScsiDirLoop(dirs, i + 1,
                    IF r.val.some THEN Append(scsi_devices, r.val.val) ELSE scsi_devices))

\* get_scsi_info, the branch taken when /sys/bus/scsi/devices exists
get_scsi_info_sys(dirs) == ScsiDirLoop(dirs, 1, <<>>)

\* an attribute file and a directory of the tree
File(name, text) == [name |-> name, text |-> text, entries |-> <<>>]
Dir(name, entries) == [name |-> name, text |-> <<>>, entries |-> entries]

\* names of the entries of /sys/bus/scsi/devices: devices, a host, a name
\* of three parts and a name whose last part is no number
DeviceNames == {<<"0", ":", "0", ":", "0", ":", "0">>, <<"0", "0", ":", "0", ":", "0", ":", "0">>, <<"1", ":", "0", ":", "0", ":", "0">>}
DirNames == DeviceNames \cup {<<"h", "o", "s", "t", "0">>, <<"0", ":", "0", ":", "0">>, <<"0", ":", "0", ":", "0", ":", "x">>}

\* the contents of a device's directory: the attributes as the kernel
\* writes them, and ones the from_str functions do not know
PlainFiles ==
    <<File(<<"v", "e", "n", "d", "o", "r">>, <<"A", "T", "A", " ", " ", " ", " ", " ", "\n">>), File(<<"m", "o", "d", "e", "l">>, <<"D", "I", "S", "K", "\n">>), File(<<"r", "e", "v">>, <<"A", "B", " ", " ", "\n">>),
      File(<<"s", "t", "a", "t", "e">>, <<"r", "u", "n", "n", "i", "n", "g", "\n">>), File(<<"t", "y", "p", "e">>, <<"0", "\n">>),
      Dir(<<"b", "l", "o", "c", "k">>, <<Dir(<<"s", "d", "a">>, <<>>)>>)>>
EnclosureFiles(slot) ==
    <<File(<<"t", "y", "p", "e">>, <<"1", "3", "\n">>),
      Dir(<<"e", "n", "c", "l", "o", "s", "u", "r", "e", "_", "d", "e", "v", "i", "c", "e", ":", "S", "l", "o", "t", "0", "1">>, <<File(<<"a", "c", "t", "i", "v", "e">>, <<"1", "\n">>), File(<<"s", "l", "o", "t">>, slot)>>)>>
DirContents ==
    {<<>>, PlainFiles, EnclosureFiles(<<"3", "\n">>), EnclosureFiles(<<"a", "b", "c", "\n">>),
     <<File(<<"s", "t", "a", "t", "e">>, <<"o", "f", "f", "l", "i", "n", "e", "\n">>)>>, <<File(<<"t", "y", "p", "e">>, <<"9", "9", "\n">>)>>,
     <<File(<<"v", "e", "n", "d", "o", "r">>, <<"S", "E", "A", "G", "A", "T", "E", " ", "\n">>)>>}

MaxDirs == 2

InitScan ==
    /\ sysScsi \in {t \in SeqsUpTo({Dir(n, c) : n \in DirNames, c \in DirContents}, MaxDirs) :
                        \A i, j \in 1..Len(t) : t[i].name = t[j].name => i = j}
    /\ info = <<>>
    /\ present = Inventories
    /\ rcLocal = NoFile
    /\ log = <<>>
    /\ device = NoCall
    /\ db = <<>>
    /\ procScsi = <<>>
    /\ mtab = <<>>
    /\ call = NoCall
    /\ ret = NoRet

GetScsiInfoSys ==
    /\ call = NoCall
    /\ call' = [op |-> "get_scsi_info_sys"]
    /\ ret' = get_scsi_info_sys(sysScsi)
    /\ UNCHANGED <<info, device, db, procScsi, sysScsi, mtab, present, rcLocal, log>>

NextScan == GetScsiInfoSys

SpecScan == InitScan /\ [][NextScan]_vars

\* the positions of the tree whose name is a device's
DevicePositions == {i \in 1..Len(sysScsi) : sysScsi[i].name \in DeviceNames}

\* C11: on the tree walk an unrecognised state, type or vendor text, or an
\* unparsable enclosure slot, does not abort the scan: when every entry is a
\* device or no device at all, get_scsi_info returns Ok with one record for
\* each device.
C11_OptionalAttributes ==
    (/\ call.op = "get_scsi_info_sys"
     /\ \A i \in 1..Len(sysScsi) : sysScsi[i].name # <<"0", ":", "0", ":", "0", ":", "x">>)
        => /\ ret.kind = "Ok"
           /\ Len(ret.val) = Cardinality(DevicePositions)

\* C20: the records of one scan have pairwise different (host, channel, id,
\* lun).
C20_UniqueCoordinates ==
    (call.op \in {"get_scsi_info_sys", "get_scsi_info"} /\ ret.kind = "Ok")
        => \A i, j \in 1..Len(ret.val) :
              (/\ ret.val[i].host = ret.val[j].host
               /\ ret.val[i].channel = ret.val[j].channel
               /\ ret.val[i].id = ret.val[j].id
               /\ ret.val[i].lun = ret.val[j].lun) => i = j

(***************************************************************************)
(* Device::from_udev_device: the Device built from one handle              *)
(***************************************************************************)

\* impl FromStr for DeviceType
DeviceType_from_str(s0) ==
    Bind(ToLower(s0), LAMBDA s :
        IF s = <<"d", "i", "s", "k">> THEN Ok("Disk")
        ELSE IF s = <<"p", "a", "r", "t", "i", "t", "i", "o", "n">> THEN Ok("Partition")
        ELSE Ok("Unknown"))

\* fn get_device_type
get_device_type(dev) ==
    IF dev.devtype.some THEN DeviceType_from_str(dev.devtype.val) ELSE Ok("Unknown")

HexDigits == Range(Digits) \cup {"a", "b", "c", "d", "e", "f", "A", "B", "C", "D", "E", "F"}

\* Uuid::parse_str: thirty-two hexadecimal digits, or the same in groups of
\* 8-4-4-4-12 joined by hyphens, that form also after "urn:uuid:"; the
\* value is the digits in lower case
Uuid_parse_str(s) ==
    Bind(IF Len(s) = 45 /\ StartsAt(s, <<"u", "r", "n", ":", "u", "u", "i", "d", ":">>, 1) THEN SubSeq(s, 10, 45) ELSE s, LAMBDA body :
    Bind(IF Len(body) = 36 /\ body[9] = "-" /\ body[14] = "-" /\ body[19] = "-" /\ body[24] = "-"
         THEN SubSeq(body, 1, 8) \o SubSeq(body, 10, 13) \o SubSeq(body, 15, 18)
                \o SubSeq(body, 20, 23) \o SubSeq(body, 25, 36)
         ELSE body, LAMBDA digits :
        IF Len(digits) = 32 /\ \A k \in 1..32 : digits[k] \in HexDigits
        THEN Some(ToLower(digits)) ELSE None))

\* fn get_uuid
get_uuid(dev) ==
    IF property_value(dev, "ID_FS_UUID").some
    THEN Uuid_parse_str(property_value(dev, "ID_FS_UUID").val)
    ELSE None

\* fn get_serial
get_serial(dev) ==
    IF property_value(dev, "ID_SERIAL").some
    THEN Some(property_value(dev, "ID_SERIAL").val)
    ELSE None

\* Device::from_udev_device; get_size can panic, the two ? never see an Err
Device_from_udev_device(dev, overflow_checks) ==
    Bind(device_capacity(dev, overflow_checks), LAMBDA capacity :
    Bind(get_device_type(dev), LAMBDA device_type :
    Bind(get_fs_type(dev), LAMBDA fs_type :
        IF device_type.kind # "Ok" THEN device_type
        ELSE IF capacity.kind = "Panic" THEN capacity
        ELSE IF fs_type.kind # "Ok" THEN fs_type
        ELSE Ok([id |-> get_uuid(dev),
                 name |-> dev.sysname,
                 media_type |-> get_media_type(dev),
                 device_type |-> device_type.val,
                 capacity |-> capacity.val,
                 fs_type |-> fs_type.val,
                 serial_number |-> get_serial(dev)]))))

(***************************************************************************)
(* Lookups of one device in the udev database                              *)
(***************************************************************************)

\* Path::file_name: the last component of the path, None when there is
\* none or when it is ".."; empty components and "." are no components
file_name(path) ==
    Bind(SelectSeq(SplitOn(path, "/", 1, <<>>), LAMBDA c : c # <<>> /\ c # <<".">>), LAMBDA comps :
        IF comps = <<>> \/ comps[Len(comps)] = <<".", ".">> THEN None
        ELSE Some(comps[Len(comps)]))

\* the part_num of get_device_from_path: parse::<u64>().ok()
part_num(dev) ==
    IF property_value(dev, "ID_PART_ENTRY_NUMBER").some
    THEN ParseU64(property_value(dev, "ID_PART_ENTRY_NUMBER").val)
    ELSE None

\* the handle answers for dev_path in get_device_from_path: by its own
\* path, or by the text of its DEVLINKS
DeviceHit(dev, dev_path) ==
    /\ dev.devtype.some
    /\ (dev.devtype.val = <<"d", "i", "s", "k">> \/ dev.devtype.val = <<"p", "a", "r", "t", "i", "t", "i", "o", "n">>)
    /\ \/ dev_path = DevPath(dev.sysname)
       \/ /\ property_value(dev, "DEVLINKS").some
          /\ Contains(property_value(dev, "DEVLINKS").val, dev_path)

RECURSIVE DeviceLoop(_, _, _, _)
\* for device in host_devices { ... } Ok((None, None))
DeviceLoop(host_devices, i, dev_path, overflow_checks) ==
    IF i > Len(host_devices) THEN Ok(<<None, None>>)
    ELSE IF DeviceHit(host_devices[i], dev_path)
    THEN Bind(Device_from_udev_device(host_devices[i], overflow_checks), LAMBDA dev :
            IF dev.kind # "Ok" THEN dev
            ELSE Ok(<<part_num(host_devices[i]), Some(dev.val)>>))
    ELSE DeviceLoop(host_devices, i + 1, dev_path, overflow_checks)

\* fn get_device_from_path
get_device_from_path(host_devices, dev_path, overflow_checks) ==
    DeviceLoop(host_devices, 1, dev_path, overflow_checks)

\* the find closure of get_device_info and the test of is_block_device
IsBlockNamed(dev, sysname) ==
    sysname = dev.sysname /\ dev.subsystem = Some(<<"b", "l", "o", "c", "k">>)

\* fn get_device_info
get_device_info(host_devices, device_path, overflow_checks) ==
    Bind(file_name(device_path), LAMBDA sysname :
        IF ~sysname.some THEN Err("Unable to get file_name on device")
        ELSE IF \E i \in 1..Len(host_devices) : IsBlockNamed(host_devices[i], sysname.val)
        THEN Device_from_udev_device(
                host_devices[Min({i \in 1..Len(host_devices) : IsBlockNamed(host_devices[i], sysname.val)})],
                overflow_checks)
        ELSE Err("Unable to get file_name on device"))

\* a plausible slip: a device that is not found is reported as "no block device"
is_block_device_or_false(host_devices, device_path) ==
    Bind(file_name(device_path), LAMBDA sysname :
        IF ~sysname.some THEN Err("Unable to get file_name on device")
        ELSE Ok(\E i \in 1..Len(host_devices) : IsBlockNamed(host_devices[i], sysname.val)))

\* fn is_block_device
is_block_device(host_devices, device_path) ==
    Bind(file_name(device_path), LAMBDA sysname :
        IF ~sysname.some THEN Err("Unable to get file_name on device")
        ELSE IF \E i \in 1..Len(host_devices) : IsBlockNamed(host_devices[i], sysname.val)
        THEN Ok(TRUE)
        ELSE Err("Unable to find device with name"))

\* fn get_block_devices_iter
get_block_devices(host_devices) == get_specific_block_device(host_devices, "Disk")

\* the paths looked up: those of the topology calls, a device that is in
\* no database, the loop device and the root directory
InfoPaths == LookupPaths \cup {<<"/", "d", "e", "v", "/", "s", "d", "z">>, <<"/", "d", "e", "v", "/", "l", "o", "o", "p", "0">>, <<"/">>}

GetDeviceFromPath ==
    /\ call = NoCall
    /\ \E p \in LookupPaths, overflow_checks \in BOOLEAN :
         /\ call' = [op |-> "get_device_from_path", path |-> p, overflow_checks |-> overflow_checks]
         /\ ret' = get_device_from_path(db, p, overflow_checks)
    /\ UNCHANGED <<info, device, db, procScsi, sysScsi, mtab, present, rcLocal, log>>

GetDeviceInfo ==
    /\ call = NoCall
    /\ \E p \in InfoPaths, overflow_checks \in BOOLEAN :
         /\ call' = [op |-> "get_device_info", path |-> p, overflow_checks |-> overflow_checks]
         /\ ret' = get_device_info(db, p, overflow_checks)
    /\ UNCHANGED <<info, device, db, procScsi, sysScsi, mtab, present, rcLocal, log>>

IsBlockDevice ==
    /\ call = NoCall
    /\ \E p \in InfoPaths :
         /\ call' = [op |-> "is_block_device", path |-> p]
         /\ ret' = is_block_device(db, p)
    /\ UNCHANGED <<info, device, db, procScsi, sysScsi, mtab, present, rcLocal, log>>

GetBlockDevices ==
    /\ call = NoCall
    /\ call' = [op |-> "get_block_devices"]
    /\ ret' = Ok(get_block_devices(db))
    /\ UNCHANGED <<info, device, db, procScsi, sysScsi, mtab, present, rcLocal, log>>

GetBlockPartitions ==
    /\ call = NoCall
    /\ call' = [op |-> "get_block_partitions"]
    /\ ret' = Ok(get_block_partitions(db))
    /\ UNCHANGED <<info, device, db, procScsi, sysScsi, mtab, present, rcLocal, log>>

MaxLookupDb == 2

\* the lookups, over a udev database of up to MaxLookupDb handles or over a
\* mount table
InitLookup == (InitTopo /\ Len(db) <= MaxLookupDb) \/ InitMount

NextLookup ==
    \/ GetParent
    \/ GetChildren
    \/ GetMountDevice
    \/ GetMountpoint
    \/ GetDeviceFromPath
    \/ GetDeviceInfo
    \/ IsBlockDevice
    \/ GetBlockDevices
    \/ GetBlockPartitions

SpecLookup == InitLookup /\ [][NextLookup]_vars

\* no disk or partition handle answers for the path p, by its own path or
\* by its DEVLINKS
NoHandleFor(p) ==
    \A i \in 1..Len(db) :
        db[i].devtype \in {Some(<<"d", "i", "s", "k">>), Some(<<"p", "a", "r", "t", "i", "t", "i", "o", "n">>)}
            => /\ DevPath(db[i].sysname) # p
               /\ db[i].props.DEVLINKS.some => ~Contains(db[i].props.DEVLINKS.val, p)

\* p is the path of a device, and no handle of the block subsystem has it
NoBlockDeviceAt(p) ==
    /\ Len(p) > 5
    /\ StartsAt(p, <<"/", "d", "e", "v", "/">>, 1)
    /\ \A i \in 1..Len(db) :
          DevPath(db[i].sysname) = p => db[i].subsystem # Some(<<"b", "l", "o", "c", "k">>)

\* no line of the mount table has the text t inside it / as one of its fields
NoLineContains(t) == \A i \in 1..Len(MtabFile) : ~Contains(MtabFile[i], t)
NoLineHasField(t) ==
    \A i \in 1..Len(MtabFile) : \A k \in 1..Len(MtabFile[i]) : ~IsKthField(MtabFile[i], k, t)

\* what the four lookups with an optional result return on a miss
EmptyOnMiss ==
    /\ (call.op = "get_mount_device" /\ NoLineContains(call.arg)) => ret = Ok(None)
    /\ (call.op = "get_mountpoint" /\ NoLineHasField(call.arg)) => ret = Ok(None)
    /\ (call.op = "get_parent_devpath_from_path" /\ NoHandleFor(call.path)) => ret = Ok(None)
    /\ (call.op = "get_device_from_path" /\ NoHandleFor(call.path)) => ret = Ok(<<None, None>>)

\* C12 as stated: a lookup whose target is not found gives an empty result
\* and never an error, get_device_info and is_block_device included.
C12_Original ==
    /\ EmptyOnMiss
    /\ (call.op \in {"get_device_info", "is_block_device"} /\ NoBlockDeviceAt(call.path))
          => ret.kind = "Ok"

\* C12 (amended): get_mount_device, get_mountpoint and
\* get_parent_devpath_from_path return Ok(None) and get_device_from_path
\* returns Ok((None, None)) when nothing matches; get_device_info and
\* is_block_device return an error when no block device has the name.
C12_LookupMiss ==
    /\ EmptyOnMiss
    /\ (call.op \in {"get_device_info", "is_block_device"} /\ NoBlockDeviceAt(call.path))
          => ret.kind = "Err"

C12_Witness ==
    /\ call.op = "is_block_device"
    /\ call.path = <<"/", "d", "e", "v", "/", "s", "d", "a", "1">>
    /\ Len(db) = 2
    /\ NoBlockDeviceAt(call.path)
    /\ ret.kind = "Err"

\* the positions of the disk and partition handles that answer for the path
\* p, by their own path or by their DEVLINKS
HandlesFor(p) ==
    {i \in 1..Len(db) :
        /\ db[i].devtype \in {Some(<<"d", "i", "s", "k">>), Some(<<"p", "a", "r", "t", "i", "t", "i", "o", "n">>)}
        /\ \/ DevPath(db[i].sysname) = p
           \/ /\ db[i].props.DEVLINKS.some
              /\ Contains(db[i].props.DEVLINKS.val, p)}

\* the path of the parent of handle i when that parent is a disk or a partition
EligibleParent(i) ==
    IF /\ db[i].parent.some
       /\ db[i].parent.val.devtype \in {Some(<<"d", "i", "s", "k">>), Some(<<"p", "a", "r", "t", "i", "t", "i", "o", "n">>)}
    THEN Some(DevPath(db[i].parent.val.sysname))
    ELSE None

\* C13: get_parent_devpath_from_path(p) answers for the first disk or
\* partition handle whose path is p or whose DEVLINKS contains p: the path of
\* its parent when that parent is a disk or a partition, None otherwise, also
\* when a later handle matches p; None when no handle matches.
C13_FirstMatchDecides ==
    call.op = "get_parent_devpath_from_path" =>
        IF HandlesFor(call.path) = {}
        THEN ret = Ok(None)
        ELSE ret = Ok(EligibleParent(Min(HandlesFor(call.path))))

\* what get_parent_devpath_from_path gives for p: the parent of the first
\* handle that answers for p and has a disk or a partition as its parent
ParentGiven(p) ==
    LET with == {i \in HandlesFor(p) : EligibleParent(i).some} IN
    IF with = {} THEN None ELSE EligibleParent(Min(with))

\* the positions, in enumeration order, of the partitions of the block
\* subsystem whose parent is given as d
ChildPositions(d) ==
    SelectSeq([i \in 1..Len(db) |-> i],
              LAMBDA i : /\ db[i].subsystem = Some(<<"b", "l", "o", "c", "k">>)
                         /\ db[i].devtype = Some(<<"p", "a", "r", "t", "i", "t", "i", "o", "n">>)
                         /\ ParentGiven(DevPath(db[i].sysname)) = Some(d))

\* C14: get_children_devpaths_from_path(D) returns, in enumeration order,
\* the paths of exactly the partitions of the block subsystem for which
\* get_parent_devpath_from_path gives Some(D).
C14_Children ==
    call.op = "get_children_devpaths_from_path" =>
        /\ ret.kind = "Ok"
        /\ ret.val = [k \in 1..Len(ChildPositions(call.path)) |->
                         DevPath(db[ChildPositions(call.path)[k]].sysname)]

C14_Witness ==
    /\ call.op = "get_children_devpaths_from_path"
    /\ call.path = <<"/", "d", "e", "v", "/", "s", "d", "a">>
    /\ Len(db) = 3
    /\ ret = Ok(<<<<"/", "d", "e", "v", "/", "s", "d", "b", "1">>, <<"/", "d", "e", "v", "/", "s", "d", "a", "1">>>>)

(***************************************************************************)
(* The equality of ScsiInfo, applied to records that differ in every field *)
(***************************************************************************)

\* coordinates that differ in one of the four numbers each
EqCoords == {<<0, 0, 0, 0>>, <<1, 0, 0, 0>>, <<0, 1, 0, 0>>, <<0, 0, 1, 0>>, <<0, 0, 0, 1>>}

\* a record with nothing but its coordinates, and one with every other
\* field set
Bare == ScsiInfo_default
Full ==
    [ScsiInfo_default EXCEPT !.block_device = Some(<<"/", "d", "e", "v", "/", "s", "d", "a">>),
                             !.enclosure = Some(Enclosure_default),
                             !.vendor = "Lsi", !.model = Some(<<"D", "I", "S", "K">>), !.rev = Some(<<"A", "B">>),
                             !.state = Some("Running"), !.scsi_type = "Enclosure",
                             !.scsi_revision = 5]

EqRecords ==
    {[r EXCEPT !.host = c[1], !.channel = c[2], !.id = c[3], !.lun = c[4]] :
        r \in {Bare, Full}, c \in EqCoords}

InitEq ==
    /\ info \in [1..3 -> EqRecords]
    /\ device = NoCall
    /\ db = <<>>
    /\ procScsi = <<>>
    /\ sysScsi = <<>>
    /\ present = Inventories
    /\ rcLocal = NoFile
    /\ log = <<>>
    /\ mtab = <<>>
    /\ call = NoCall
    /\ ret = NoRet

\* a == b on two records of the slice
ScsiInfoEq ==
    /\ call = NoCall
    /\ \E a, b \in 1..3 :
         /\ call' = [op |-> "eq", a |-> a, b |-> b]
         /\ ret' = Ret(ScsiEq(info[a], info[b]))
    /\ UNCHANGED <<info, device, db, procScsi, sysScsi, mtab, present, rcLocal, log>>

NextEq == ScsiInfoEq

SpecEq == InitEq /\ [][NextEq]_vars

\* C16: two ScsiInfo records are equal iff their (host, channel, id, lun) are
\* equal, whatever their other fields; the equality is reflexive, symmetric
\* and transitive.
C16_Equality ==
    call.op = "eq" =>
        /\ ret.val = (CoordOf(info[call.a]) = CoordOf(info[call.b]))
        /\ ScsiEq(info[call.a], info[call.a])
        /\ ret.val = ScsiEq(info[call.b], info[call.a])
        /\ \A k \in 1..3 :
             (ret.val /\ ScsiEq(info[call.b], info[k])) => ScsiEq(info[call.a], info[k])

C16_Witness ==
    /\ call.op = "eq"
    /\ info[call.a].vendor # info[call.b].vendor
    /\ info[call.a].enclosure # info[call.b].enclosure
    /\ ret = Ret(TRUE)

(***************************************************************************)
(* The mounted devices of /etc/mtab                                        *)
(***************************************************************************)

\* u16::from_str
u16_from_str(s) ==
    Bind(ParseU64(s), LAMBDA p :
        IF p.some /\ p.val[2] = 0 /\ p.val[3] = 0 /\ p.val[4] = 0
        THEN Some(p.val[1]) ELSE None)

RECURSIVE EntriesLoop(_, _, _)
\* FsTab::get_entries: a line that begins with "#" or has other than six
\* fields is passed over; the sixth field is parsed as the fsck order
EntriesLoop(lines, i, entries) ==
    IF i > Len(lines) THEN Ok(entries)
    ELSE IF lines[i] # <<>> /\ lines[i][1] = "#" THEN EntriesLoop(lines, i + 1, entries)
    ELSE Bind(SplitWhitespace(lines[i]), LAMBDA parts :
            IF Len(parts) # 6 THEN EntriesLoop(lines, i + 1, entries)
            ELSE IF ~u16_from_str(parts[6]).some THEN Err("ParseIntError")
            ELSE EntriesLoop(lines, i + 1,
                    Append(entries, [fs_spec |-> parts[1], mountpoint |-> parts[2],
                                     vfs_type |-> parts[3]])))

get_entries(text) == EntriesLoop(Lines(text), 1, <<>>)

\* Device::from_fs_entry
Device_from_fs_entry(fs_entry) ==
    Bind(FilesystemType_from_str(fs_entry.vfs_type), LAMBDA fs_type :
        IF fs_type.kind # "Ok" THEN fs_type
        ELSE Ok([id |-> None,
                 name |-> IF file_name(fs_entry.fs_spec).some
                          THEN file_name(fs_entry.fs_spec).val ELSE <<>>,
                 media_type |-> "Unknown",
                 device_type |-> "Unknown",
                 capacity |-> U64Zero,
                 fs_type |-> fs_type.val,
                 serial_number |-> None]))

\* a plausible slip: the filter on "mapper" is left out
IsMountedDeviceAnyDev(d) == Contains(d.fs_spec, <<"/", "d", "e", "v", "/">>)

\* the two filters of get_mounted_devices_iter
IsMountedDevice(d) ==
    /\ Contains(d.fs_spec, <<"/", "d", "e", "v", "/">>)
    /\ ~Contains(d.fs_spec, <<"m", "a", "p", "p", "e", "r">>)

\* fn get_mounted_devices: the collect() into BlockResult<Vec<Device>>
get_mounted_devices(text) ==
    Bind(get_entries(text), LAMBDA entries :
        IF entries.kind # "Ok" THEN entries
        ELSE Bind(SelectSeq(entries.val, IsMountedDevice), LAMBDA kept :
             Bind([k \in 1..Len(kept) |-> Device_from_fs_entry(kept[k])], LAMBDA devs :
                IF \E k \in 1..Len(devs) : devs[k].kind # "Ok"
                THEN devs[Min({k \in 1..Len(devs) : devs[k].kind # "Ok"})]
                ELSE Ok([k \in 1..Len(devs) |-> devs[k].val]))))

\* lines of the mount table: two devices, a logical volume, a pseudo file
\* system, a comment, a line of two fields, a network share and an entry
\* whose sixth field is not a number
MountedLines ==
    {LineSda1, LineSdb1, <<"/", "d", "e", "v", "/", "m", "a", "p", "p", "e", "r", "/", "v", "g", "-", "r", "o", "o", "t", " ", "/", " ", "e", "x", "t", "4", " ", "r", "w", " ", "0", " ", "0">>, <<"t", "m", "p", "f", "s", " ", "/", "r", "u", "n", " ", "t", "m", "p", "f", "s", " ", "r", "w", " ", "0", " ", "0">>,
     <<"#", " ", "/", "d", "e", "v", "/", "s", "d", "c", "1", " ", "/", "o", "l", "d", " ", "e", "x", "t", "4", " ", "r", "w", " ", "0", " ", "0">>, <<"/", "d", "e", "v", "/", "s", "d", "d", "1", " ", "/", "m", "n", "t", "/", "s", "h", "o", "r", "t">>,
     <<"/", "/", "n", "a", "s", "/", "d", "e", "v", "/", "s", "h", "a", "r", "e", " ", "/", "m", "n", "t", "/", "n", "a", "s", " ", "R", "e", "i", "s", "e", "r", "F", "S", " ", "r", "w", " ", "0", " ", "0">>,
     <<"/", "d", "e", "v", "/", "s", "d", "e", "1", " ", "/", "m", "n", "t", "/", "e", " ", "x", "f", "s", " ", "r", "w", " ", "0", " ", "x">>}

InitMounted ==
    /\ mtab \in {JoinLines(ls, 1) : ls \in SeqsUpTo(MountedLines, MaxLines)}
    /\ info = <<>>
    /\ device = NoCall
    /\ db = <<>>
    /\ procScsi = <<>>
    /\ sysScsi = <<>>
    /\ present = Inventories
    /\ rcLocal = NoFile
    /\ log = <<>>
    /\ call = NoCall
    /\ ret = NoRet

GetMountedDevices ==
    /\ call = NoCall
    /\ call' = [op |-> "get_mounted_devices"]
    /\ ret' = get_mounted_devices(mtab)
    /\ UNCHANGED <<info, device, db, procScsi, sysScsi, mtab, present, rcLocal, log>>

NextMounted == GetMountedDevices

SpecMounted == InitMounted /\ [][NextMounted]_vars

\* the k-th whitespace-separated field of the line l, which has that many:
\* the run of non-blank characters from the k-th offset at which one begins
KthField(l, k) ==
    LET j == CHOOSE x \in FieldStarts(l) : Cardinality({y \in FieldStarts(l) : y < x}) = k - 1
        e == CHOOSE x \in j..Len(l) :
                /\ \A y \in j..x : ~IsSpace(l[y])
                /\ (x = Len(l) \/ IsSpace(l[x + 1]))
    IN  SubSeq(l, j, e)

\* the line is an entry of the mount table whose device field has "/dev/"
\* and has not "mapper" inside it
IsMountedLine(l) ==
    /\ l # <<>>
    /\ l[1] # "#"
    /\ Cardinality(FieldStarts(l)) = 6
    /\ Contains(KthField(l, 1), <<"/", "d", "e", "v", "/">>)
    /\ ~Contains(KthField(l, 1), <<"m", "a", "p", "p", "e", "r">>)

\* text t ends with the text e
EndsWith(t, e) == Len(e) <= Len(t) /\ SubSeq(t, Len(t) - Len(e) + 1, Len(t)) = e

\* the line is read as an entry by FsTab::get_entries
IsEntryLine(l) == (l = <<>> \/ l[1] # "#") /\ Cardinality(FieldStarts(l)) = 6

\* C17: get_mounted_devices returns, in the order of the mount table, one
\* Device for each entry whose device field contains "/dev/" and does not
\* contain "mapper"; its name is the last component of the device field, its
\* fs_type is classified from the fstype field, and id, media_type,
\* device_type, capacity and serial_number are None, Unknown, Unknown, 0 and
\* None.  The mount table has entries when every line of six fields ends in
\* a number, as every line the kernel writes does.
C17_MountedDevices ==
    call.op = "get_mounted_devices" =>
        \A lines \in {MtabFile} :
        \A pos \in {SelectSeq([i \in 1..Len(lines) |-> i], LAMBDA i : IsMountedLine(lines[i]))} :
            /\ ret.kind = "Ok" <=>
                    \A i \in 1..Len(lines) :
                        IsEntryLine(lines[i]) => u16_from_str(KthField(lines[i], 6)).some
            /\ ret.kind = "Ok" =>
                /\ Len(ret.val) = Len(pos)
                /\ \A k \in 1..Len(pos) :
                     \A l \in {lines[pos[k]]}, d \in {ret.val[k]} :
                        /\ d.fs_type = FilesystemType_from_str(KthField(l, 3)).val
                        /\ "/" \notin Range(d.name)
                        /\ EndsWith(KthField(l, 1), <<"/">> \o d.name)
                        /\ d.id = None
                        /\ d.media_type = "Unknown"
                        /\ d.device_type = "Unknown"
                        /\ d.capacity = U64Zero
                        /\ d.serial_number = None

C17_Witness ==
    /\ call.op = "get_mounted_devices"
    /\ mtab = JoinLines(<<LineSdb1, <<"/", "d", "e", "v", "/", "m", "a", "p", "p", "e", "r", "/", "v", "g", "-", "r", "o", "o", "t", " ", "/", " ", "e", "x", "t", "4", " ", "r", "w", " ", "0", " ", "0">>, LineSda1>>, 1)
    /\ ret.kind = "Ok"
    /\ Len(ret.val) = 2
    /\ ret.val[1].name = <<"s", "d", "b", "1">>
    /\ ret.val[2].name = <<"s", "d", "a", "1">>
    /\ ret.val[2].fs_type = Fs("Ext4")

(***************************************************************************)
(* The split of the block handles into partitions and devices              *)
(***************************************************************************)

\* the paths of the handles at the positions in S
PathsAt(S) == {DevPath(db[i].sysname) : i \in S}

\* the positions of the handles of subsystem "block" that are partitions
PartitionPositions ==
    {i \in 1..Len(db) : db[i].subsystem = Some(<<"b", "l", "o", "c", "k">>) /\ db[i].devtype = Some(<<"p", "a", "r", "t", "i", "t", "i", "o", "n">>)}

\* the positions of the handles of subsystem "block" that are not
OtherBlockPositions ==
    {i \in 1..Len(db) : db[i].subsystem = Some(<<"b", "l", "o", "c", "k">>) /\ db[i].devtype # Some(<<"p", "a", "r", "t", "i", "t", "i", "o", "n">>)}

DevTypes == {None, Some(<<"d", "i", "s", "k">>), Some(<<"D", "i", "s", "k">>), Some(<<"P", "A", "R", "T", "I", "T", "I", "O", "N">>), Some(<<"p", "a", "r", "t", "i", "t", "i", "o", "n">>), Some(<<"s", "c", "s", "i", "_", "d", "e", "v", "i", "c", "e">>), Some(<<>>)}
FsUuids ==
    {None, Some(<<>>), Some(<<"1", "2", "3", "4", "-", "A", "B", "C", "D">>),
     Some(<<"6", "b", "a", "7", "b", "8", "1", "0", "-", "9", "d", "a", "d", "-", "1", "1", "d", "1", "-", "8", "0", "b", "4", "-", "0", "0", "c", "0", "4", "f", "d", "4", "3", "0", "c", "8">>),
     Some(<<"6", "B", "A", "7", "B", "8", "1", "0", "-", "9", "D", "A", "D", "-", "1", "1", "D", "1", "-", "8", "0", "B", "4", "-", "0", "0", "C", "0", "4", "F", "D", "4", "3", "0", "C", "8">>),
     Some(<<"6", "b", "a", "7", "b", "8", "1", "0", "9", "d", "a", "d", "1", "1", "d", "1", "8", "0", "b", "4", "0", "0", "c", "0", "4", "f", "d", "4", "3", "0", "c", "8">>),
     Some(<<"6", "b", "a", "7", "b", "8", "1", "0", "-", "9", "d", "a", "d", "-", "1", "1", "d", "1", "-", "8", "0", "b", "4", "-", "0", "0", "c", "0", "4", "f", "d", "4", "3", "0", "c", "g">>),
     Some(<<"6", "b", "a", "7", "b", "8", "1", "0", "-", "9", "d", "a", "d", "-", "1", "1", "d", "1", "-", "8", "0", "b", "4", "-", "0", "0", "c", "0", "4", "f", "d", "4", "3", "0", "c">>)}
Serials == {None, Some(<<>>), Some(<<"Q", "E", "M", "U", "_", "H", "A", "R", "D", "D", "I", "S", "K", "_", "Q", "M", "0", "0", "0", "0", "1">>), Some(<<" ", "w", "d", " ", " ", "0", "x", "5", " ">>)}
DeviceSizes == {None, Some(<<"2", "0", "4", "8">>), Some(<<"3", "6", "0", "2", "8", "7", "9", "7", "0", "1", "8", "9", "6", "3", "9", "6", "7">>), Some(<<"3", "6", "0", "2", "8", "7", "9", "7", "0", "1", "8", "9", "6", "3", "9", "6", "8">>)}

\* the handles Device::from_udev_device is applied to
DeviceHandles ==
    {[sysname |-> <<"s", "d", "a">>,
      devtype |-> dt,
      props |-> [DM_NAME |-> None, ID_ATA_ROTATION_RATE_RPM |-> None, ID_VENDOR |-> None,
                 ID_FS_TYPE |-> Some(<<"e", "x", "t", "4">>), ID_FS_UUID |-> id, ID_SERIAL |-> serial],
      attrs |-> [size |-> sz]] :
        dt \in DevTypes, id \in FsUuids, serial \in Serials, sz \in DeviceSizes}

InitDevice ==
    /\ device \in DeviceHandles
    /\ info = <<>>
    /\ db = <<>>
    /\ procScsi = <<>>
    /\ mtab = <<>>
    /\ sysScsi = <<>>
    /\ present = Inventories
    /\ rcLocal = NoFile
    /\ log = <<>>
    /\ call = NoCall
    /\ ret = NoRet

FromUdevDevice ==
    /\ call = NoCall
    /\ \E overflow_checks \in BOOLEAN :
         /\ call' = [op |-> "from_udev_device", overflow_checks |-> overflow_checks]
         /\ ret' = Device_from_udev_device(device, overflow_checks)
    /\ UNCHANGED <<info, device, db, procScsi, sysScsi, mtab, present, rcLocal, log>>

NextDevice == FromUdevDevice

SpecDevice == InitDevice /\ [][NextDevice]_vars

\* the text is a UUID as ID_FS_UUID spells one: thirty-two hexadecimal
\* digits, bare or in hyphenated groups of 8-4-4-4-12
WellFormedUuid(s) ==
    \/ Len(s) = 32 /\ \A k \in 1..32 : s[k] \in HexDigits
    \/ /\ Len(s) = 36
       /\ \A k \in 1..36 : IF k \in {9, 14, 19, 24} THEN s[k] = "-" ELSE s[k] \in HexDigits

\* C19: building a Device from a handle never fails on its attributes: the
\* devtype is matched to Disk and Partition whatever its case and any other
\* or absent devtype gives Unknown, a malformed or absent ID_FS_UUID gives the
\* id None, ID_SERIAL is passed through as it is, and no value makes
\* Device::from_udev_device fail.
C19_NeverFails ==
    call.op = "from_udev_device" =>
        /\ ret.kind = "Ok"
        /\ \A dt \in {device.devtype}, d \in {ret.val} :
            /\ d.device_type =
                 IF dt.some /\ ToLower(dt.val) = <<"d", "i", "s", "k">> THEN "Disk"
                 ELSE IF dt.some /\ ToLower(dt.val) = <<"p", "a", "r", "t", "i", "t", "i", "o", "n">> THEN "Partition"
                 ELSE "Unknown"
            /\ (~device.props.ID_FS_UUID.some \/ ~WellFormedUuid(device.props.ID_FS_UUID.val))
                 => d.id = None
            /\ d.serial_number = device.props.ID_SERIAL

\* the same for the handles whose size attribute times 512 is below 2^64
C19_BelowOverflow ==
    (call.op = "from_udev_device" /\ device.attrs.size # Some(<<"3", "6", "0", "2", "8", "7", "9", "7", "0", "1", "8", "9", "6", "3", "9", "6", "8">>))
        => C19_NeverFails

(***************************************************************************)
(* Enumerations repeated over the udev database                            *)
(***************************************************************************)

\* a plausible slip: one enumerator is shared by the calls, and a scan that
\* follows another finds it exhausted
get_all_device_info_resumed(host_devices, devices, overflow_checks) ==
    IF log # <<>> THEN Ok(<<>>)
    ELSE Bind(SelectSeq(devices, LAMBDA p : file_name(p).some), LAMBDA named :
         Bind({file_name(named[k]).val : k \in 1..Len(named)}, LAMBDA device_names :
         Bind(SelectSeq(host_devices, LAMBDA dev :
                    dev.sysname \in device_names /\ dev.subsystem = Some(<<"b", "l", "o", "c", "k">>)), LAMBDA kept :
         Bind([k \in 1..Len(kept) |-> Device_from_udev_device(kept[k], overflow_checks)], LAMBDA devs :
            IF \E k \in 1..Len(devs) : devs[k].kind # "Ok"
            THEN devs[Min({k \in 1..Len(devs) : devs[k].kind # "Ok"})]
            ELSE Ok([k \in 1..Len(devs) |-> devs[k].val])))))

\* fn get_all_device_info: the file names of the paths, the block handles of
\* the scan that carry one of them, and the collect() of their Devices
get_all_device_info(host_devices, devices, overflow_checks) ==
    Bind(SelectSeq(devices, LAMBDA p : file_name(p).some), LAMBDA named :
    Bind({file_name(named[k]).val : k \in 1..Len(named)}, LAMBDA device_names :
    Bind(SelectSeq(host_devices, LAMBDA dev :
               dev.sysname \in device_names /\ dev.subsystem = Some(<<"b", "l", "o", "c", "k">>)), LAMBDA kept :
    Bind([k \in 1..Len(kept) |-> Device_from_udev_device(kept[k], overflow_checks)], LAMBDA devs :
       IF \E k \in 1..Len(devs) : devs[k].kind # "Ok"
       THEN devs[Min({k \in 1..Len(devs) : devs[k].kind # "Ok"})]
       ELSE Ok([k \in 1..Len(devs) |-> devs[k].val])))))

\* the handles of the repeated enumerations: a disk, two partitions, a loop
\* device and the SCSI device
EnumHandles ==
    {UdevHandle(<<"s", "d", "a">>, Some(<<"b", "l", "o", "c", "k">>), Some(<<"d", "i", "s", "k">>), None, None),
     UdevHandle(<<"s", "d", "a", "1">>, Some(<<"b", "l", "o", "c", "k">>), Some(<<"p", "a", "r", "t", "i", "t", "i", "o", "n">>), Some(ParentOf(<<"s", "d", "a">>)), None),
     UdevHandle(<<"s", "d", "b", "1">>, Some(<<"b", "l", "o", "c", "k">>), Some(<<"p", "a", "r", "t", "i", "t", "i", "o", "n">>), Some(ParentOf(<<"s", "d", "b">>)), None),
     UdevHandle(<<"l", "o", "o", "p", "0">>, Some(<<"b", "l", "o", "c", "k">>), None, None, None),
     UdevHandle(<<"0", ":", "0", ":", "0", ":", "0">>, Some(<<"s", "c", "s", "i">>), Some(<<"s", "c", "s", "i", "_", "d", "e", "v", "i", "c", "e">>), None, None)}

\* the path lists handed to get_all_device_info
PathLists ==
    {<<<<"/", "d", "e", "v", "/", "s", "d", "a">>, <<"/", "d", "e", "v", "/", "s", "d", "a", "1">>>>, <<<<"/", "d", "e", "v", "/", "s", "d", "a", "1">>, <<"/">>, <<"/", "d", "e", "v", "/", "l", "o", "o", "p", "0">>, <<"/", "d", "e", "v", "/", "0", ":", "0", ":", "0", ":", "0">>>>}

MaxCalls == 2

InitEnumerate ==
    /\ db \in {s \in SeqsUpTo(EnumHandles, MaxLookupDb) : DistinctNames(s)}
    /\ info = <<>>
    /\ device = NoCall
    /\ procScsi = <<>>
    /\ mtab = <<>>
    /\ sysScsi = <<>>
    /\ present = Inventories
    /\ rcLocal = NoFile
    /\ log = <<>>
    /\ call = NoCall
    /\ ret = NoRet

\* a call completes: it is the last call, and it is logged with what it
\* returned and the database it ran over
Completes(c, r) ==
    /\ Len(log) < MaxCalls
    /\ call' = c
    /\ ret' = r
    /\ log' = Append(log, [call |-> c, ret |-> r, db |-> db])
    /\ UNCHANGED <<info, device, db, procScsi, sysScsi, mtab, present, rcLocal>>

AllDeviceInfo ==
    \E devices \in PathLists, overflow_checks \in BOOLEAN :
        Completes([op |-> "get_all_device_info", devices |-> devices, overflow_checks |-> overflow_checks],
                  get_all_device_info(db, devices, overflow_checks))

BlockDevices == Completes([op |-> "get_block_devices"], Ok(get_block_devices(db)))

BlockPartitions == Completes([op |-> "get_block_partitions"], Ok(get_block_partitions(db)))

\* the last handle of the database is unplugged between two calls
Unplug ==
    /\ db # <<>>
    /\ log # <<>>
    /\ Len(log) < MaxCalls
    /\ db' = SubSeq(db, 1, Len(db) - 1)
    /\ UNCHANGED <<info, device, procScsi, sysScsi, mtab, present, rcLocal, log, call, ret>>

NextEnumerate == AllDeviceInfo \/ BlockDevices \/ BlockPartitions \/ Unplug

SpecEnumerate == InitEnumerate /\ [][NextEnumerate]_vars

AfterModel(t) ==
    {k \in 9..(Len(t) - 4) :
        /\ t[k] = " "
        /\ SubSeq(t, k + 1, k + 4) = <<"R", "e", "v", ":">>
        /\ \E m \in 8..(k - 1) :
              /\ SubSeq(t, m - 7, m - 1) = <<"M", "o", "d", "e", "l", ":", " ">>
              /\ \A x \in m..(k - 1) : t[x] \in Letters}

\* the text with a second blank after each of these Model tokens
Widened(t) ==
    LET P == AfterModel(t)
        Shift(i) == Cardinality({p \in P : p < i})
    IN  [j \in 1..(Len(t) + Cardinality(P)) |->
            IF \E i \in 1..Len(t) : i + Shift(i) = j
            THEN t[CHOOSE i \in 1..Len(t) : i + Shift(i) = j]
            ELSE " "]

\* C22: a legacy record whose Model token is followed by a single blank and
\* the Rev: tag parses exactly like the same record with two blanks after
\* the Model token.
C22_ModelDelimiter ==
    call.op = "get_scsi_info" =>
        \A t \in {procScsi} :
            AfterModel(t) # {} =>
                \A w \in {get_scsi_info_legacy(Widened(t))} :
                    /\ ret.kind = w.kind
                    /\ ret.kind = "Ok" => ret.val = w.val

(***************************************************************************)
(* The names of the entries of /sys/bus/scsi/devices                       *)
(***************************************************************************)

\* names of entries: two devices, a host, a target, a name that begins with
\* no digit, and names of four parts of which one is no number, is too
\* large for a u8, or is empty
EntryNames ==
    {<<"0", ":", "0", ":", "0", ":", "0">>, <<"1", ":", "0", ":", "0", ":", "0">>, <<"h", "o", "s", "t", "0">>, <<"0", ":", "0", ":", "0">>, <<"x", ":", "0", ":", "0", ":", "0">>,
     <<"0", ":", "0", ":", "0", ":", "x">>, <<"0", ":", "0", ":", "0", ":", "2", "5", "6">>, <<"0", ":", "0", ":", ":", "0">>}

InitNames ==
    /\ sysScsi \in {t \in SeqsUpTo({Dir(n, c) : n \in EntryNames, c \in {<<>>, PlainFiles}}, MaxDirs) :
                        \A i, j \in 1..Len(t) : t[i].name = t[j].name => i = j}
    /\ info = <<>>
    /\ device = NoCall
    /\ db = <<>>
    /\ procScsi = <<>>
    /\ mtab = <<>>
    /\ present = Inventories
    /\ rcLocal = NoFile
    /\ log = <<>>
    /\ call = NoCall
    /\ ret = NoRet

SpecNames == InitNames /\ [][NextScan]_vars

\* the parts of the name n between its colons
ColonParts(n) ==
    LET cut == <<0>> \o SelectSeq([i \in 1..Len(n) |-> i], LAMBDA i : n[i] = ":") \o <<Len(n) + 1>>
    IN  [k \in 1..(Len(cut) - 1) |-> SubSeq(n, cut[k] + 1, cut[k + 1] - 1)]

\* the text is a decimal integer in 0..255
IsCoordinate(f) ==
    /\ f # <<>>
    /\ \A k \in 1..Len(f) : IsDigit(f[k])
    /\ \E a, b, c \in 0..9 :
          /\ 100 * a + 10 * b + c <= 255
          /\ \E z \in 0..Len(f) :
                /\ \A k \in 1..z : f[k] = "0"
                /\ SubSeq(f, z + 1, Len(f)) \in
                      {<<Digits[a + 1], Digits[b + 1], Digits[c + 1]>>,
                       <<Digits[b + 1], Digits[c + 1]>>, <<Digits[c + 1]>>, <<>>}
                /\ (Len(f) - z = 3 => a # 0) /\ (Len(f) - z = 2 => b # 0 /\ a = 0)
                /\ (Len(f) - z = 1 => a = 0 /\ b = 0) /\ (Len(f) - z = 0 => a = 0 /\ b = 0 /\ c = 0)

\* the entry at position i is read as a device: its name begins with a digit
\* and has four parts
NamedAsDevice(i) ==
    /\ sysScsi[i].name # <<>>
    /\ IsDigit(sysScsi[i].name[1])
    /\ Len(ColonParts(sysScsi[i].name)) = 4

\* C23: on the tree walk an entry whose name begins with a digit and has four
\* parts of which one is no decimal integer in 0..255 makes get_scsi_info
\* return an error; entries whose name begins with no digit or has not four
\* parts are passed over without error, and every other entry gives a record
\* with the four numbers of its name.
C23_BadCoordinate ==
    call.op = "get_scsi_info_sys" =>
        \A devs \in {SelectSeq([i \in 1..Len(sysScsi) |-> i], NamedAsDevice)} :
            IF \E k \in 1..Len(devs) : \E f \in Range(ColonParts(sysScsi[devs[k]].name)) : ~IsCoordinate(f)
            THEN ret.kind = "Err"
            ELSE /\ ret.kind = "Ok"
                 /\ Len(ret.val) = Len(devs)
                 /\ \A k \in 1..Len(devs) :
                       <<Decimal(ret.val[k].host), <<":">>, Decimal(ret.val[k].channel), <<":">>,
                         Decimal(ret.val[k].id), <<":">>, Decimal(ret.val[k].lun)>>
                         = <<ColonParts(sysScsi[devs[k]].name)[1], <<":">>,
                             ColonParts(sysScsi[devs[k]].name)[2], <<":">>,
                             ColonParts(sysScsi[devs[k]].name)[3], <<":">>,
                             ColonParts(sysScsi[devs[k]].name)[4]>>

C23_Witness ==
    /\ call.op = "get_scsi_info_sys"
    /\ Len(sysScsi) = 2
    /\ sysScsi[1].name = <<"1", ":", "0", ":", "0", ":", "0">>
    /\ sysScsi[2].name = <<"0", ":", "0", ":", "0", ":", "2", "5", "6">>
    /\ ret.kind = "Err"

\* entries that are no devices are passed over
C23_WitnessSkipped ==
    /\ call.op = "get_scsi_info_sys"
    /\ Len(sysScsi) = 2
    /\ sysScsi[1].name = <<"x", ":", "0", ":", "0", ":", "0">>
    /\ sysScsi[2].name = <<"1", ":", "0", ":", "0", ":", "0">>
    /\ ret.kind = "Ok"
    /\ Len(ret.val) = 1

(***************************************************************************)
(* get_scsi_info: the tree walk, or the legacy text when there is no tree  *)
(***************************************************************************)

\* a plausible slip: an error of the tree walk also leads to the legacy text
get_scsi_info_falling_back(exists, dirs, buff) ==
    Bind(IF SysScsiPath \in exists THEN get_scsi_info_sys(dirs) ELSE Err("no tree"), LAMBDA walked :
        IF walked.kind = "Ok" THEN walked
        ELSE IF ProcScsiPath \notin exists THEN Err("No such file or directory")
        ELSE get_scsi_info_legacy(buff))

\* fn get_scsi_info: scsi_path.exists() chooses the walk of the tree, else
\* fs::read_to_string("/proc/scsi/scsi")? and the legacy parser
get_scsi_info(exists, dirs, buff) ==
    IF SysScsiPath \in exists THEN get_scsi_info_sys(dirs)
    ELSE IF ProcScsiPath \notin exists THEN Err("No such file or directory")
    ELSE get_scsi_info_legacy(buff)

\* a legacy text that parses into one record, and one that does not parse
LegacyGood ==
    Header \o RecordText(<<"2">>, 0, 0, 0, <<"L", "S", "I">>, <<"D", "I", "S", "K">>, <<"A", "B">>, <<"R", "A", "I", "D">>, 5) \o Trailer
LegacyBad ==
    Header \o RecordText(<<"X">>, 0, 0, 0, <<"L", "S", "I">>, <<"D", "I", "S", "K">>, <<"A", "B">>, <<"R", "A", "I", "D">>, 5) \o Trailer

\* the entries of the tree: two devices, a device of an unknown type and a
\* name whose last part is no number
InfoDirs ==
    {Dir(<<"0", ":", "0", ":", "0", ":", "0">>, PlainFiles), Dir(<<"1", ":", "0", ":", "0", ":", "0">>, <<>>),
     Dir(<<"3", ":", "0", ":", "0", ":", "0">>, <<File(<<"t", "y", "p", "e">>, <<"9", "9", "\n">>)>>), Dir(<<"0", ":", "0", ":", "0", ":", "x">>, <<>>)}

InitInfo ==
    /\ present \in SUBSET Inventories
    /\ sysScsi \in IF SysScsiPath \in present
                    THEN {t \in SeqsUpTo(InfoDirs, MaxDirs) :
                            \A i, j \in 1..Len(t) : t[i].name = t[j].name => i = j}
                    ELSE {<<>>}
    /\ procScsi \in IF ProcScsiPath \in present THEN {<<>>, LegacyGood, LegacyBad} ELSE {<<>>}
    /\ info = <<>>
    /\ device = NoCall
    /\ db = <<>>
    /\ mtab = <<>>
    /\ rcLocal = NoFile
    /\ log = <<>>
    /\ call = NoCall
    /\ ret = NoRet

GetScsiInfo ==
    /\ call = NoCall
    /\ call' = [op |-> "get_scsi_info"]
    /\ ret' = get_scsi_info(present, sysScsi, procScsi)
    /\ UNCHANGED <<info, device, db, procScsi, sysScsi, mtab, present, rcLocal, log>>

NextInfo == GetScsiInfo

SpecInfo == InitInfo /\ [][NextInfo]_vars

\* the tree has an entry on which the walk fails
WalkFails ==
    \E i \in 1..Len(sysScsi) : sysScsi[i].name \in {<<"3", ":", "0", ":", "0", ":", "0">>, <<"0", ":", "0", ":", "0", ":", "x">>}

\* C24: get_scsi_info reads and parses the legacy text if and only if the
\* root of the tree does not exist: when it exists the result is that of the
\* walk whatever the legacy text holds, an error of the walk included; when
\* it does not, the result is that of the legacy text.
C24_FallbackOnlyWithoutTree ==
    call.op = "get_scsi_info" =>
        IF SysScsiPath \in present
        THEN /\ ret = get_scsi_info_sys(sysScsi)
             /\ WalkFails => ret.kind = "Err" /\ ret.err \in {"ParseIntError", "Unknown scheduler"}
             /\ ~WalkFails => ret.kind = "Ok" /\ Len(ret.val) = Len(sysScsi)
        ELSE /\ ProcScsiPath \notin present => ret = Err("No such file or directory")
             /\ ProcScsiPath \in present => ret = get_scsi_info_legacy(procScsi)
             /\ procScsi = LegacyGood => ret.kind = "Ok" /\ Len(ret.val) = 1 /\ ret.val[1].host = 2
             /\ procScsi = LegacyBad => ret.kind = "Err"

C24_Witness ==
    /\ call.op = "get_scsi_info"
    /\ present = Inventories
    /\ procScsi = LegacyGood
    /\ Len(sysScsi) = 2
    /\ sysScsi[1].name = <<"1", ":", "0", ":", "0", ":", "0">>
    /\ sysScsi[2].name = <<"0", ":", "0", ":", "0", ":", "x">>
    /\ ret = Err("ParseIntError")

(***************************************************************************)
(* The children lookup when scans of the udev database fail                *)
(***************************************************************************)

\* get_parent_devpath_from_path when its scan of the database may fail:
\* udev::Enumerator::new()? and scan_devices()? return the error
get_parent_devpath_scanned(host_devices, dev_path, scan_fails) ==
    IF scan_fails THEN Err("EnumerationError")
    ELSE get_parent_devpath_from_path(host_devices, dev_path)

\* fn get_children_devpaths_from_path_iter, collected: the calls scan the
\* database one after the other, first get_block_partitions_iter, then
\* get_parent_devpath_from_path for each partition in turn; failed holds
\* the ordinal numbers of the scans that fail
get_children_devpaths_from_path_iter(host_devices, dev_path, failed) ==
    IF 1 \in failed THEN Err("EnumerationError")
    ELSE Bind(get_block_partitions(host_devices), LAMBDA partitions :
         Bind(SelectSeq([k \in 1..Len(partitions) |-> k], LAMBDA k :
                \A r \in {get_parent_devpath_scanned(host_devices, partitions[k], (k + 1) \in failed)} :
                    IF r.kind = "Ok" /\ r.val.some THEN dev_path = r.val.val ELSE FALSE),
              LAMBDA kept : Ok([k \in 1..Len(kept) |-> partitions[kept[k]]])))

GetChildrenIter ==
    /\ call = NoCall
    /\ \E p \in LookupPaths, failed \in SUBSET (1..(MaxLookupDb + 1)) :
         /\ call' = [op |-> "get_children_devpaths_from_path_iter", path |-> p, failed |-> failed]
         /\ ret' = get_children_devpaths_from_path_iter(db, p, failed)
    /\ UNCHANGED <<info, device, db, procScsi, sysScsi, mtab, present, rcLocal, log>>

NextChildren == GetChildrenIter

SpecChildren == InitEnumerate /\ [][NextChildren]_vars

\* C25: when a scan of the database fails while the children of a device
\* are looked up, in the listing of the partitions or in the parent lookup
\* of any partition, the call returns the error.
C25_ErrorsSurface ==
    call.op = "get_children_devpaths_from_path_iter" =>
        \A n \in {Len(get_block_partitions(db))} :
            (\E k \in call.failed : k <= n + 1) => ret.kind = "Err"

(***************************************************************************)
(* The text of a DeviceState                                               *)
(***************************************************************************)

DeviceStates == {"Blocked", "FailFast", "Lost", "Running", "RunningRta"}

\* impl fmt::Display for DeviceState
DeviceState_fmt(state) ==
    CASE state = "Blocked" -> <<"b", "l", "o", "c", "k", "e", "d">>
      [] state = "FailFast" -> <<"f", "a", "i", "l", "_", "f", "a", "s", "t">>
      [] state = "Lost" -> <<"l", "o", "s", "t">>
      [] state = "Running" -> <<"r", "u", "n", "n", "i", "n", "g">>
      [] state = "RunningRta" -> <<"r", "u", "n", "n", "i", "n", "g", "_", "r", "t", "a">>

\* trees whose devices carry a state attribute written with Display
InitState ==
    /\ sysScsi \in {t \in SeqsUpTo({Dir(n, <<File(<<"s", "t", "a", "t", "e">>, DeviceState_fmt(s) \o <<"\n">>)>>) :
                                        n \in DeviceNames, s \in DeviceStates}, MaxDirs) :
                        \A i, j \in 1..Len(t) : t[i].name = t[j].name => i = j}
    /\ info = <<>>
    /\ device = NoCall
    /\ db = <<>>
    /\ procScsi = <<>>
    /\ mtab = <<>>
    /\ present = Inventories
    /\ rcLocal = NoFile
    /\ log = <<>>
    /\ call = NoCall
    /\ ret = NoRet

\* DeviceState::from_str(&state.to_string())
StateRoundTrip ==
    /\ call = NoCall
    /\ \E state \in DeviceStates :
         /\ call' = [op |-> "DeviceState::from_str", state |-> state]
         /\ ret' = DeviceState_from_str(DeviceState_fmt(state))
    /\ UNCHANGED <<info, device, db, procScsi, sysScsi, mtab, present, rcLocal, log>>

NextState == GetScsiInfoSys \/ StateRoundTrip

SpecState == InitState /\ [][NextState]_vars

\* C29: for every DeviceState s, DeviceState::from_str of the Display text
\* of s is Ok(s).
C29_RoundTrip ==
    call.op = "DeviceState::from_str" => ret = Ok(call.state)

\* the same for the states other than FailFast
C29_OtherStates ==
    (call.op = "DeviceState::from_str" /\ call.state # "FailFast") => ret = Ok(call.state)

(***************************************************************************)
(* set_elevator over the boot script /etc/rc.local.  The file is the       *)
(* sequence of its lines.  shellscript::parse sorts the trimmed lines into *)
(* the interpreter (a line that begins with "#!"), the comments (the other *)
(* lines that begin with "#") and the commands (every other line), and     *)
(* ShellScript::write puts out the interpreter, the comments and the       *)
(* commands, a line each.                                                  *)
(***************************************************************************)

\* impl fmt::Display for Scheduler
Scheduler_fmt(elevator) ==
    CASE elevator = "Cfq" -> <<"c", "f", "q">>
      [] elevator = "Deadline" -> <<"d", "e", "a", "d", "l", "i", "n", "e">>
      [] elevator = "Noop" -> <<"n", "o", "o", "p">>

Schedulers == {"Cfq", "Deadline", "Noop"}

\* shellscript::parse
shellscript_parse(lines) ==
    Bind([k \in 1..Len(lines) |-> Trim(lines[k])], LAMBDA trimmed :
        [interpreter |-> SelectSeq(trimmed, LAMBDA l : StartsAt(l, <<"#", "!">>, 1)),
         comments |-> SelectSeq(trimmed, LAMBDA l : StartsAt(l, <<"#">>, 1) /\ ~StartsAt(l, <<"#", "!">>, 1)),
         commands |-> SelectSeq(trimmed, LAMBDA l : ~StartsAt(l, <<"#">>, 1))])

\* ShellScript::write: the lines written
shellscript_write(script) ==
    (IF script.interpreter = <<>> THEN <<>> ELSE <<script.interpreter[Len(script.interpreter)]>>)
        \o script.comments \o script.commands

\* format!("echo {scheduler} > /sys/block/{device}/queue/scheduler")
elevator_cmd(elevator, device_name) ==
    <<"e", "c", "h", "o", " ">> \o Scheduler_fmt(elevator) \o <<" ", ">", " ", "/", "s", "y", "s", "/", "b", "l", "o", "c", "k", "/">> \o device_name \o <<"/", "q", "u", "e", "u", "e", "/", "s", "c", "h", "e", "d", "u", "l", "e", "r">>

\* script.commands.iter().position(|cmd| cmd.contains(&device_name)): the
\* positions that contain the name, of which position() gives the first
existing_cmd(commands, device_name) ==
    {pos \in 1..Len(commands) : Contains(commands[pos], device_name)}

\* fn set_elevator: the result and the file it leaves
set_elevator(file, device_path, elevator) ==
    IF ~file.some THEN [ret |-> Err("No such file or directory"), file |-> file]
    ELSE
    Bind(IF file_name(device_path).some THEN file_name(device_path).val ELSE <<>>, LAMBDA device_name :
    Bind(shellscript_parse(file.val), LAMBDA script :
    Bind(existing_cmd(script.commands, device_name), LAMBDA found :
    Bind(IF found = {} THEN script.commands
         ELSE SubSeq(script.commands, 1, Min(found) - 1)
                \o SubSeq(script.commands, Min(found) + 1, Len(script.commands)), LAMBDA kept :
    Bind(shellscript_write([script EXCEPT !.commands = Append(kept, elevator_cmd(elevator, device_name))]),
         LAMBDA written :
            [ret |-> Ok(Len(JoinLines(written, 1))), file |-> Some(written)])))))

\* boot scripts that hold no scheduler command
BootScripts ==
    {NoFile,
     Some(<<>>),
     Some(<<<<"#", "!", "/", "b", "i", "n", "/", "s", "h">>, <<"#", " ", "r", "c", ".", "l", "o", "c", "a", "l">>, <<"t", "o", "u", "c", "h", " ", "/", "v", "a", "r", "/", "l", "o", "c", "k", "/", "s", "u", "b", "s", "y", "s", "/", "l", "o", "c", "a", "l">>>>),
     Some(<<<<"#", "!", "/", "b", "i", "n", "/", "s", "h">>, <<" ", " ", "s", "w", "a", "p", "o", "n", " ", "-", "a", " ", " ">>, <<"e", "x", "i", "t", " ", "0">>>>)}

ElevatorPaths == {<<"/", "d", "e", "v", "/", "s", "d", "a">>, <<"/", "d", "e", "v", "/", "s", "d", "a", "1">>, <<"/", "d", "e", "v", "/", "s", "d", "b">>}

InitElevator ==
    /\ rcLocal \in BootScripts
    /\ info = <<>>
    /\ device = NoCall
    /\ db = <<>>
    /\ procScsi = <<>>
    /\ sysScsi = <<>>
    /\ mtab = <<>>
    /\ present = Inventories
    /\ log = <<>>
    /\ call = NoCall
    /\ ret = NoRet

SetElevator ==
    /\ Len(log) < MaxCalls
    /\ \E device_path \in ElevatorPaths, elevator \in Schedulers :
        \E r \in {set_elevator(rcLocal, device_path, elevator)} :
         /\ call' = [op |-> "set_elevator", device_path |-> device_path, elevator |-> elevator]
         /\ ret' = r.ret
         /\ rcLocal' = r.file
         /\ log' = Append(log, [call |-> call', ret |-> ret', before |-> rcLocal])
    /\ UNCHANGED <<info, device, db, procScsi, sysScsi, mtab, present>>

NextElevator == SetElevator

SpecElevator == InitElevator /\ [][NextElevator]_vars

\* the commands the script holds now
Commands == IF rcLocal.some THEN shellscript_parse(rcLocal.val).commands ELSE <<>>

\* the position in the log of the last call for the device path p
LastCallFor(p) ==
    CHOOSE k \in 1..Len(log) :
        /\ log[k].call.device_path = p
        /\ \A j \in (k + 1)..Len(log) : log[j].call.device_path # p

\* the scheduler commands of the script for the device name n
CommandsFor(n) ==
    {pos \in 1..Len(Commands) :
        \E s \in Schedulers : Commands[pos] = elevator_cmd(s, n)}

\* C30: after successful set_elevator calls on a boot script that held no
\* scheduler command, the script holds for every device that was set exactly
\* one scheduler command, with the scheduler of the last call for that
\* device, also when one name is inside another (sda and sda1); and the
\* commands that mention no device that was set are all still there.
C30_OneCommandPerDevice ==
    (log # <<>> /\ \A k \in 1..Len(log) : log[k].ret.kind = "Ok") =>
        /\ \A p \in {log[k].call.device_path : k \in 1..Len(log)} :
              \A n \in {file_name(p).val} :
                 /\ Cardinality(CommandsFor(n)) = 1
                 /\ \A pos \in CommandsFor(n) :
                       Commands[pos] = elevator_cmd(log[LastCallFor(p)].call.elevator, n)
        /\ \A c \in Range(shellscript_parse(log[1].before.val).commands) :
              (\A k \in 1..Len(log) : ~Contains(c, file_name(log[k].call.device_path).val))
                 => c \in Range(Commands)

\* the same when no device that is set has its name inside that of another
C30_DistinctNames ==
    (\A j, k \in 1..Len(log) :
        \/ log[j].call.device_path = log[k].call.device_path
        \/ ~Contains(file_name(log[j].call.device_path).val, file_name(log[k].call.device_path).val))
      => C30_OneCommandPerDevice

====
